---- MODULE Spec2Model ----
(***************************************************************************)
(* A model of the fire Controller request pipeline (controller.go) on top  *)
(* of the coal Manager storage operations.                                 *)
(*                                                                         *)
(* Storage follows the MongoDB transaction rules the Manager is written    *)
(* for: a transaction reads from the snapshot taken by its first           *)
(* operation plus its own writes, a write to a document that another open  *)
(* transaction has written (or that changed since the snapshot) fails with *)
(* a write conflict, and the writes become visible at commit.              *)
(***************************************************************************)
EXTENDS Integers, Sequences, FiniteSets, TLC

\* ------------------------------------------------------------------ bounds
\* Number of requests that may run concurrently.
NumReqs == 3
\* Client supplied idempotent-create tokens are 1..MaxToken (0 is "").
MaxToken == 2
\* Object ids and server generated tokens are 1..MaxOID (coal.New()).
MaxOID == 5
\* Attribute values a client may submit for "title".
MaxTitle == 2

Reqs == 1..NumReqs
Titles == 1..MaxTitle

\* ------------------------------------------------------------------ state
VARIABLES
    cfg,      \* the Controller's feature flags
    store,    \* committed documents of the model's collection: id -> document
    version,  \* number of committed writes per document id
    clock,    \* last object id handed out by coal.New()
    ctx,      \* the request contexts: one per in-flight request
    last      \* the request served last when requests are served one by one

vars == <<cfg, store, version, clock, ctx, last>>

\* ---------------------------------------------------------------- documents
EmptyFn == [i \in {} |-> 0]

NoDoc == [none |-> TRUE]

\* Marks a document removed by an open transaction.
Tomb == [tomb |-> TRUE]

\* coal.Meta.Make: a zero model. token is the "fire-idempotent-create" field,
\* upd the "fire-consistent-update" field, deleted the "fire-soft-delete"
\* timestamp (set or not), lk the "_lk" lock counter of the document.
Make == [token |-> 0, upd |-> 0, title |-> 0, parent |-> 0, peers |-> <<>>,
         deleted |-> FALSE, lk |-> 0]

\* coal.New: a fresh object id.
New(c) == c + 1

\* An operation set in which a Delete does not count as a write.
Write_Update(op) == op \in {"create", "update"}

\* Operation.Write: create, update and delete write data.
Write(op) == op \in {"create", "update", "delete"}

\* ------------------------------------------------------------- transactions
\* What a transaction sees: its snapshot overlaid with its own writes.
View(snap, writes) ==
    [i \in (DOMAIN snap \cup DOMAIN writes) \ {j \in DOMAIN writes : writes[j] = Tomb} |->
        IF i \in DOMAIN writes THEN writes[i] ELSE snap[i]]

Ver(v, i) == IF i \in DOMAIN v THEN v[i] ELSE 0

\* The request has an open transaction.
Active(q) == ctx[q].pc \in {"loaded", "commit", "run"}

\* A storage that never reports a write conflict.
Conflict_None(r, snapVer, i) == FALSE

\* A write of document i by request r conflicts with another open transaction
\* that wrote i, or with a commit of i after r's snapshot.
Conflict(r, snapVer, i) ==
    \/ \E q \in Reqs \ {r} : Active(q) /\ i \in DOMAIN ctx[q].writes
    \/ Ver(version, i) # Ver(snapVer, i)

IdleCtx == [pc |-> "idle", op |-> "none", id |-> 0, tok |-> 0, title |-> 0,
            model |-> NoDoc, storedTok |-> 0, newTok |-> 0,
            snap |-> EmptyFn, snapVer |-> EmptyFn, writes |-> EmptyFn,
            pending |-> 0, status |-> 0]

\* A pagination link that is not set.
NoPage == 0 - 1

\* jsonapi.DocumentLinks without pagination links. The links are recorded by
\* the page number they point to, Size is the page size they all carry.
NoLinks == [Self |-> NoPage, Size |-> 0, First |-> NoPage, Last |-> NoPage,
            Previous |-> NoPage, Next |-> NoPage]

\* No request has been served yet. A served request is recorded with its
\* inputs (op, id, rel, refs, fields), the response status, the resources of
\* the response (data: resource id -> attributes and relationship linkages),
\* for the relationship endpoints the linkage returned, and the pagination
\* links of a list.
NoLast == [op |-> "none", id |-> 0, rel |-> "", refs |-> <<>>, fields |-> {},
           status |-> 0, data |-> EmptyFn, linkage |-> <<>>, links |-> NoLinks]

\* stack.Abort: the request ends with an error status, its transaction is
\* rolled back (the writes are dropped).
Abort(c, code) == [c EXCEPT !.pc = "done", !.status = code, !.writes = EmptyFn]

\* Store.T returning without error: the writes are committed and the response
\* is written.
Commit(r) ==
    /\ ctx[r].pc = "commit"
    /\ store' = View(store, ctx[r].writes)
    /\ version' = [i \in DOMAIN version \cup DOMAIN ctx[r].writes |->
                      IF i \in DOMAIN ctx[r].writes THEN Ver(version, i) + 1
                      ELSE version[i]]
    /\ ctx' = [ctx EXCEPT ![r].pc = "done", ![r].status = ctx[r].pending,
                          ![r].writes = EmptyFn]
    /\ UNCHANGED <<cfg, clock, last>>

\* ------------------------------------------------------------------- create
\* Documents of the view that match the query {token field: tok}.
\* A token query that skips soft-deleted documents.
MatchToken_Live(view, tok) == {i \in DOMAIN view : view[i].token = tok /\ ~view[i].deleted}

MatchToken(view, tok) == {i \in DOMAIN view : view[i].token = tok}

\* InsertIfMissing without the query: inserts whatever is stored.
InsertIfMissing_Always(view, tok, id, model) ==
    [inserted |-> TRUE, writes |-> (id :> model)]

\* Manager.InsertIfMissing: an upsert with $setOnInsert. Inserts the model
\* unless a document of the view matches the query; reports whether it did.
InsertIfMissing(view, tok, id, model) ==
    IF MatchToken(view, tok) # {}
    THEN [inserted |-> FALSE, writes |-> EmptyFn]
    ELSE [inserted |-> TRUE, writes |-> (id :> model)]

\* Controller.createResource from the authorizers to the insert. The
\* transaction takes its snapshot with the insert, its only storage operation.
CreateResource(r) ==
    /\ ctx[r].pc = "idle"
    /\ clock + (IF cfg.ConsistentUpdate THEN 2 ELSE 1) <= MaxOID
    /\ \E tok \in 0..MaxToken :
        LET id == New(clock)
            title == MaxTitle
            upd == IF cfg.ConsistentUpdate THEN New(id) ELSE 0
            model == [Make EXCEPT !.token = tok, !.title = title, !.upd = upd]
            c == [ctx[r] EXCEPT !.op = "create", !.id = id, !.tok = tok,
                                !.title = title, !.model = model,
                                !.snap = store, !.snapVer = version]
            res == InsertIfMissing(store, tok, id, model)
        IN
        /\ clock' = IF cfg.ConsistentUpdate THEN New(id) ELSE id
        /\ IF cfg.IdempotentCreate
           THEN IF tok = 0
                THEN ctx' = [ctx EXCEPT ![r] = Abort(c, 400)]
                ELSE IF ~res.inserted
                THEN ctx' = [ctx EXCEPT ![r] = Abort(c, 409)]
                ELSE ctx' = [ctx EXCEPT ![r] = [c EXCEPT !.pc = "commit",
                                    !.writes = res.writes, !.pending = 201]]
           ELSE ctx' = [ctx EXCEPT ![r] = [c EXCEPT !.pc = "commit",
                                    !.writes = (id :> model), !.pending = 201]]
    /\ UNCHANGED <<cfg, store, version, last>>

InitCreate ==
    /\ cfg \in [IdempotentCreate : BOOLEAN, ConsistentUpdate : {FALSE},
                SoftDelete : {FALSE}, ListLimit : {0}]
    /\ store = EmptyFn
    /\ version = EmptyFn
    /\ clock = 0
    /\ ctx = [r \in Reqs |-> IdleCtx]
    /\ last = NoLast

NextCreate ==
    \/ \E r \in Reqs : CreateResource(r)
    \/ \E r \in Reqs : Commit(r)

SpecCreate == InitCreate /\ [][NextCreate]_vars

\* Create requests that carried token T and are answered.
CreatesWith(T) == {r \in Reqs : ctx[r].op = "create" /\ ctx[r].tok = T /\ ctx[r].pc = "done"}

\* Persisted entities with idempotent-create token T.
EntitiesWith(T) == {i \in DOMAIN store : store[i].token = T}

AllAnswered == \A r \in Reqs : ctx[r].pc = "done"

Selected_Unfiltered(view, id) == {i \in DOMAIN view : i = id}

\* Context.Query for a single resource: the selector set by loadModel, the id
\* and, on a soft-delete controller, an unset delete timestamp.
Selected(view, id) ==
    {i \in DOMAIN view : i = id /\ (cfg.SoftDelete => ~view[i].deleted)}

\* Manager.FindFirst: reports a write conflict when the lock cannot be taken,
\* otherwise whether a document matched; with lock the "_lk" counter of the
\* document is incremented in the transaction and the incremented document is
\* returned.
FindFirst(r, view, snapVer, id, lock) ==
    IF Selected(view, id) = {}
    THEN [err |-> FALSE, found |-> FALSE, model |-> NoDoc, writes |-> EmptyFn]
    ELSE IF lock /\ Conflict(r, snapVer, id)
    THEN [err |-> TRUE, found |-> FALSE, model |-> NoDoc, writes |-> EmptyFn]
    ELSE IF lock
    THEN LET doc == [view[id] EXCEPT !.lk = @ + 1] IN
         [err |-> FALSE, found |-> TRUE, model |-> doc, writes |-> (id :> doc)]
    ELSE [err |-> FALSE, found |-> TRUE, model |-> view[id], writes |-> EmptyFn]

\* The token check accepting any submitted token.
TokenValid_Any(model, storedTok) == TRUE

\* Controller.updateResource, the check of the submitted consistent update
\* token against the stored one.
TokenValid(model, storedTok) == model.upd = storedTok

\* An Update that accepts any idempotent create token.
TokenKept_Any(model, storedCreate) == TRUE

\* Controller.updateResource, "check if idempotent create token has been
\* changed".
TokenKept(model, storedCreate) == model.token = storedCreate

\* The replace keeping the submitted token instead of issuing a new one.
RotateToken_Keep(model, c) == model

\* Controller.updateResource, "generate new update token".
RotateToken(model, c) == [model EXCEPT !.upd = New(c)]

\* Manager.ReplaceFirst with the query {_id, update token field: tok}.
ReplaceFirst(view, id, tok, model) ==
    IF id \in DOMAIN view /\ view[id].upd = tok
    THEN [updated |-> TRUE, writes |-> (id :> model)]
    ELSE [updated |-> FALSE, writes |-> EmptyFn]

\* Manager.Replace: replaces the document with the model's id.
Replace(view, id, model) ==
    IF id \in DOMAIN view
    THEN [updated |-> TRUE, writes |-> (id :> model)]
    ELSE [updated |-> FALSE, writes |-> EmptyFn]

\* Controller.updateResource up to assignData: the structural checks pass,
\* loadModel finds and locks the document (the transaction's first storage
\* operation), the stored update token is remembered and reset, and the
\* submitted attributes are assigned.
UpdateLoad(r) ==
    /\ ctx[r].pc = "idle"
    /\ \E id \in DOMAIN store, title \in Titles,
          tok \in (IF cfg.ConsistentUpdate THEN 0..clock ELSE {0}) :
        LET c == [ctx[r] EXCEPT !.op = "update", !.id = id, !.tok = tok,
                                !.title = title, !.snap = store, !.snapVer = version]
            res == FindFirst(r, store, version, id, Write("update"))
            stored == IF cfg.ConsistentUpdate THEN res.model.upd ELSE 0
            reset == IF cfg.ConsistentUpdate THEN [res.model EXCEPT !.upd = 0] ELSE res.model
            assigned == [reset EXCEPT !.title = title,
                                      !.upd = IF tok # 0 THEN tok ELSE @]
        IN
        IF res.err
        THEN ctx' = [ctx EXCEPT ![r] = Abort(c, 500)]
        ELSE IF ~res.found
        THEN ctx' = [ctx EXCEPT ![r] = Abort(c, 404)]
        ELSE ctx' = [ctx EXCEPT ![r] = [c EXCEPT !.pc = "loaded", !.model = assigned,
                                              !.storedTok = stored, !.writes = res.writes]]
    /\ UNCHANGED <<cfg, store, version, clock, last>>

\* updateResource taking the plain replace also with consistent update.
UpdateReplace_Unchecked(r) ==
    /\ ctx[r].pc = "loaded"
    /\ ctx[r].op = "update"
    /\ LET c == ctx[r]
           res == Replace(View(c.snap, c.writes), c.id, c.model)
       IN
       IF Conflict(r, c.snapVer, c.id)
       THEN ctx' = [ctx EXCEPT ![r] = Abort(c, 500)]
       ELSE ctx' = [ctx EXCEPT ![r] = [c EXCEPT !.pc = "commit", !.newTok = c.model.upd,
                         !.writes = res.writes @@ c.writes, !.pending = 200]]
    /\ UNCHANGED <<cfg, store, version, clock, last>>

\* Controller.updateResource from the validators to the response: with
\* consistent update the token check, the new token and the conditional
\* replace, otherwise the plain replace.
UpdateReplace(r) ==
    /\ ctx[r].pc = "loaded"
    /\ ctx[r].op = "update"
    /\ LET c == ctx[r]
           view == View(c.snap, c.writes)
       IN
       IF cfg.ConsistentUpdate
       THEN IF ~TokenValid(c.model, c.storedTok)
            THEN /\ ctx' = [ctx EXCEPT ![r] = Abort(c, 400)]
                 /\ clock' = clock
            ELSE /\ clock < MaxOID
                 /\ clock' = New(clock)
                 /\ LET model == RotateToken(c.model, clock)
                        res == ReplaceFirst(view, c.id, c.model.upd, model)
                    IN
                    IF Conflict(r, c.snapVer, c.id)
                    THEN ctx' = [ctx EXCEPT ![r] = Abort(c, 500)]
                    ELSE IF ~res.updated
                    THEN ctx' = [ctx EXCEPT ![r] = Abort([c EXCEPT !.model = model], 409)]
                    ELSE ctx' = [ctx EXCEPT ![r] = [c EXCEPT !.pc = "commit", !.model = model,
                                      !.newTok = model.upd,
                                      !.writes = res.writes @@ c.writes, !.pending = 200]]
       ELSE /\ clock' = clock
            /\ LET res == Replace(view, c.id, c.model) IN
               IF Conflict(r, c.snapVer, c.id)
               THEN ctx' = [ctx EXCEPT ![r] = Abort(c, 500)]
               ELSE ctx' = [ctx EXCEPT ![r] = [c EXCEPT !.pc = "commit",
                                 !.writes = res.writes @@ c.writes, !.pending = 200]]
    /\ UNCHANGED <<cfg, store, version, last>>

\* One entity, as createResource stores it: id 1 and, with consistent update,
\* the initial update token 2.
InitUpdate ==
    /\ cfg \in [IdempotentCreate : {FALSE}, ConsistentUpdate : BOOLEAN,
                SoftDelete : {FALSE}, ListLimit : {0}]
    /\ store = (1 :> [Make EXCEPT !.title = 1,
                                  !.upd = IF cfg.ConsistentUpdate THEN 2 ELSE 0])
    /\ version = (1 :> 1)
    /\ clock = 2
    /\ ctx = [r \in Reqs |-> IdleCtx]
    /\ last = NoLast

NextUpdate ==
    \/ \E r \in Reqs : UpdateLoad(r)
    \/ \E r \in Reqs : UpdateReplace(r)
    \/ \E r \in Reqs : Commit(r)

SpecUpdate == InitUpdate /\ [][NextUpdate]_vars

\* Answered Update requests.
Updates == {r \in Reqs : ctx[r].op = "update" /\ ctx[r].pc = "done"}

\* Two answered Updates of the same entity that carried the same token, the
\* first of them successful.
SameTokenPair(r1, r2) ==
    /\ r1 # r2 /\ {r1, r2} \subseteq Updates
    /\ ctx[r1].id = ctx[r2].id /\ ctx[r1].tok = ctx[r2].tok
    /\ ctx[r1].status = 200

\* The stored entity is what the Update r wrote, as long as no later Update
\* replaced r's token.
HoldsChangesOf(r) ==
    (ctx[r].id \in DOMAIN store /\ store[ctx[r].id].upd = ctx[r].newTok) =>
        store[ctx[r].id] = ctx[r].model

Succeeds(r) ==
    /\ ctx[r].op = "update" /\ ctx[r].pc = "commit"
    /\ ctx'[r].pc = "done" /\ ctx'[r].status = 200

\* C3: with consistent update every successful Update carries the stored token
\* and stores a new token that differs from it, so the stored token never
\* keeps the value it had before an update.
C3_TokenRotates ==
    [][cfg.ConsistentUpdate =>
        \A r \in Reqs : Succeeds(r) =>
            /\ store[ctx[r].id].upd = ctx[r].tok
            /\ store'[ctx[r].id].upd # store[ctx[r].id].upd
            /\ store'[ctx[r].id].upd # 0]_vars

\* A second successful Update in a row: the token was rotated twice.
C3_Witness ==
    /\ cfg.ConsistentUpdate
    /\ \E r1, r2 \in Updates :
          /\ r1 # r2 /\ ctx[r1].status = 200 /\ ctx[r2].status = 200
          /\ ctx[r1].tok = 2 /\ ctx[r2].tok = ctx[r1].newTok
          /\ store[1].upd = ctx[r2].newTok

\* Answered Updates that loaded the entity and had submitted a token other
\* than the stored one.
Mismatched == {r \in Updates : ctx[r].model # NoDoc /\ ctx[r].tok # ctx[r].storedTok}

\* The step that answers a request with the given status.
Answers(r, code) == ctx[r].pc # "done" /\ ctx'[r].pc = "done" /\ ctx'[r].status = code

MaxLock == 2
\* References a relationship request body may carry for a to-many field.
MaxRefs == 2
\* Relationship writes an entity may take where only its to-many field is
\* of interest.
MaxWrites == 3
\* Field names a sparse fieldset may carry.
MaxFields == 2

\* The entities of the scenarios in which requests are served one by one: an
\* entity and one other entity that may refer to it.
Nodes == {1, 2}

\* The resource ids a request may be addressed to.
Ids == Nodes \cup DOMAIN store

\* coal.Meta.Relationships of the model, keyed by relationship name: an
\* optional to-one "parent" and a to-many "peers" to the model's own type, a
\* has-many "children" (inverse "parent") and a has-one "mate" (inverse
\* "peers").
Relationships ==
    [parent   |-> [ToOne |-> TRUE, ToMany |-> FALSE, HasOne |-> FALSE, HasMany |-> FALSE,
                   RelInverse |-> ""],
     peers    |-> [ToOne |-> FALSE, ToMany |-> TRUE, HasOne |-> FALSE, HasMany |-> FALSE,
                   RelInverse |-> ""],
     children |-> [ToOne |-> FALSE, ToMany |-> FALSE, HasOne |-> FALSE, HasMany |-> TRUE,
                   RelInverse |-> "parent"],
     mate     |-> [ToOne |-> FALSE, ToMany |-> FALSE, HasOne |-> TRUE, HasMany |-> FALSE,
                   RelInverse |-> "peers"]]

\* coal.Meta.Fields of the model, keyed by field name: the attributes carry a
\* JSON key, the relationships a relationship name, the soft-delete timestamp
\* is hidden from the wire and carries neither.
Fields ==
    [Title    |-> [JSONKey |-> "title",        RelName |-> ""],
     Token    |-> [JSONKey |-> "create-token", RelName |-> ""],
     Upd      |-> [JSONKey |-> "update-token", RelName |-> ""],
     Deleted  |-> [JSONKey |-> "",             RelName |-> ""],
     Parent   |-> [JSONKey |-> "",             RelName |-> "parent"],
     Peers    |-> [JSONKey |-> "",             RelName |-> "peers"],
     Children |-> [JSONKey |-> "",             RelName |-> "children"],
     Mate     |-> [JSONKey |-> "",             RelName |-> "mate"]]

\* coal.Meta.Attributes, keyed by JSON key: the field name of each attribute.
Attributes ==
    [k \in {Fields[f].JSONKey : f \in DOMAIN Fields} \ {""} |->
        CHOOSE f \in DOMAIN Fields : Fields[f].JSONKey = k]

\* The field name of the relationship with the given relationship name.
RelField(n) == CHOOSE f \in DOMAIN Fields : Fields[f].RelName = n

\* Relationship names a request may carry: the model's and one it lacks.
RelInputs == DOMAIN Relationships \cup {"bogus"}

\* Request bodies of the relationship endpoints: up to n references.
Bodies(n) == UNION {[1..k -> Nodes] : k \in 0..n}

\* coal.Contains: the list holds the id.
Contains(ids, x) == \E k \in 1..Len(ids) : ids[k] = x

Count(ids, x) == Cardinality({k \in 1..Len(ids) : ids[k] = x})

Range(ids) == {ids[k] : k \in 1..Len(ids)}

\* The outcome of a handler: the response status, the writes of its
\* transaction and the response document.
Res(status, writes, data, linkage) ==
    [status |-> status, writes |-> writes, data |-> data, linkage |-> linkage,
     links |-> NoLinks]

\* stack.Abort in a handler: nothing is written, no document is returned.
Err(code) == Res(code, EmptyFn, EmptyFn, <<>>)

\* Controller.loadModel: FindFirst with the id selector and the soft-delete
\* filter, locking when the operation writes.
loadModel(view, id, op) == FindFirst(0, view, version, id, Write(op))

\* Controller.loadModels: the documents matching the selector, deleted
\* documents filtered out on a soft-delete controller.
loadModels(view, selector) ==
    {i \in DOMAIN view : i \in selector /\ (cfg.SoftDelete => ~view[i].deleted)}

\* preloadRelationships reading every referring document, deleted or not.
References_All(view) == DOMAIN view

\* Controller.preloadRelationships, the query for the referring documents:
\* soft-deleted documents are excluded when the related controller has
\* soft-delete enabled.
References(view) == {i \in DOMAIN view : cfg.SoftDelete => ~view[i].deleted}

\* Controller.preloadRelationships, "collect references": the ids of the
\* referring documents, in document order, one entry per matching reference
\* of the inverse field.
RECURSIVE Collect(_, _, _, _)
Collect(view, inverse, modelID, refs) ==
    IF refs = {} THEN <<>>
    ELSE LET i == CHOOSE x \in refs : \A y \in refs : x <= y
             n == IF Relationships[inverse].ToOne
                  THEN IF view[i].parent # 0 /\ view[i].parent = modelID THEN 1 ELSE 0
                  ELSE Count(view[i].peers, modelID)
         IN [k \in 1..n |-> i] \o Collect(view, inverse, modelID, refs \ {i})

\* utils.Intersect: the members of the first list that are in the second.
Intersect(a, b) == a \cap b

\* initialFields whitelisting nothing: every exposed field is readable.
initialFields_Ignore(fields) ==
    [err |-> FALSE,
     list |-> {Attributes[k] : k \in DOMAIN Attributes}
                 \cup {RelField(n) : n \in DOMAIN Relationships}]

\* Controller.initialFields: the names of all attributes and relationships;
\* with a sparse fieldset the requested wire names are converted to field
\* names (an unknown one aborts with 400) and whitelist the list.
initialFields(fields) ==
    LET list == {Attributes[k] : k \in DOMAIN Attributes}
                    \cup {RelField(n) : n \in DOMAIN Relationships}
        requested == {IF k \in DOMAIN Attributes THEN Attributes[k] ELSE RelField(k) :
                         k \in fields \cap (DOMAIN Attributes \cup DOMAIN Relationships)}
    IN IF fields = {} THEN [err |-> FALSE, list |-> list]
       ELSE IF \E k \in fields : k \notin DOMAIN Attributes /\ k \notin DOMAIN Relationships
       THEN [err |-> TRUE, list |-> {}]
       ELSE [err |-> FALSE, list |-> Intersect(requested, list)]

\* The readable fields of a request without a sparse fieldset.
ReadableAll == initialFields({}).list

\* Controller.constructResource, "prepare whitelist": the readable field
\* names converted to JSON keys and relationship names.
Whitelist(readable) ==
    {IF Fields[f].JSONKey # "" THEN Fields[f].JSONKey ELSE Fields[f].RelName :
        f \in {g \in readable : Fields[g].JSONKey # "" \/ Fields[g].RelName # ""}}

\* jsonapi.StructToMap: the attributes of the model by JSON key, restricted
\* to the whitelisted keys.
StructToMap(model, whitelist) ==
    [k \in DOMAIN Attributes \cap whitelist |->
        IF k = "title" THEN model.title
        ELSE IF k = "create-token" THEN model.token ELSE model.upd]

\* Controller.preloadRelationships: for every whitelisted has-one and
\* has-many relationship the references of each model.
preloadRelationships(view, models, readable) ==
    [n \in {m \in DOMAIN Relationships \cap Whitelist(readable) :
                Relationships[m].HasOne \/ Relationships[m].HasMany} |->
        [modelID \in models |->
            Collect(view, Relationships[n].RelInverse, modelID, References(view))]]

\* Controller.constructResource: the whitelisted attributes and the linkages
\* of the whitelisted relationships. To-one and to-many linkages are read
\* from the model, has-one and has-many linkages from the preloaded
\* references; a has-one relationship with more than one reference aborts
\* the request.
constructResource(model, id, relationships, readable) ==
    LET whitelist == Whitelist(readable)
        names == DOMAIN Relationships \cap whitelist
    IN [err |-> \E n \in names :
                   Relationships[n].HasOne /\ Len(relationships[n][id]) > 1,
        attributes |-> StructToMap(model, whitelist),
        relationships |->
            [n \in names |->
                IF Relationships[n].ToOne
                THEN IF model.parent # 0 THEN <<model.parent>> ELSE <<>>
                ELSE IF Relationships[n].ToMany THEN model.peers
                ELSE relationships[n][id]]]

\* The resource as it is put into the response document.
Resource(r) == [attributes |-> r.attributes, relationships |-> r.relationships]

\* loadModels without the list limit.
Restrain_None(page) == page

\* Controller.loadModels, "honor list limit": with a list limit a missing or
\* larger page size is restrained to the limit and pagination is enforced.
Restrain(page) ==
    IF cfg.ListLimit > 0 /\ (page.size = 0 \/ page.size > cfg.ListLimit)
    THEN [number |-> IF page.number = 0 THEN 1 ELSE page.number, size |-> cfg.ListLimit]
    ELSE page

\* Controller.loadModels, "add pagination" and Manager.FindAll: with a page
\* number and a page size the matching documents of that page, in the order
\* of their ids, otherwise all of them.
FindAll(matching, page) ==
    IF page.number > 0 /\ page.size > 0
    THEN LET skip == (page.number - 1) * page.size IN
         {i \in matching :
             LET pos == Cardinality({j \in matching : j <= i}) IN
             pos > skip /\ pos <= skip + page.size}
    ELSE matching

\* The last page rounded down.
Ceil_Floor(count, size) == count \div size

\* math.Ceil(float64(count) / float64(size)).
Ceil(count, size) ==
    IF count % size = 0 THEN count \div size ELSE (count \div size) + 1

\* Controller.listLinks: with a page number and a page size the self, first
\* and last link, the previous link unless on the first page and the next
\* link if the page is before the last; count is Manager.Count on the query.
listLinks(count, page) ==
    IF page.number > 0 /\ page.size > 0
    THEN LET lastPage == Ceil(count, page.size) IN
         [Self |-> page.number, Size |-> page.size, First |-> 1, Last |-> lastPage,
          Previous |-> IF page.number > 1 THEN page.number - 1 ELSE NoPage,
          Next |-> IF page.number < lastPage THEN page.number + 1 ELSE NoPage]
    ELSE NoLinks

\* A request without pagination parameters.
NoPaging == [number |-> 0, size |-> 0]

\* Controller.listResources on the given selector: load the page, preload,
\* assemble the resources and the links.
listResources(view, selector, fields, paging) ==
    LET init == initialFields(fields)
        page == Restrain(paging)
        matching == loadModels(view, selector)
        models == FindAll(matching, page)
        relationships == preloadRelationships(view, models, init.list)
        resources == [i \in models |->
                         constructResource(view[i], i, relationships, init.list)]
    IN IF init.err THEN Err(400)
       ELSE IF \E i \in models : resources[i].err
       THEN Err(500)
       ELSE [Res(200, EmptyFn, [i \in models |-> Resource(resources[i])], <<>>)
                EXCEPT !.links = listLinks(Cardinality(matching), page)]

\* The tail shared by the handlers that answer with the loaded model: preload
\* on the transaction's view, assemble, and return either the resource or the
\* linkage of one relationship.
Respond(view, writes, model, id, rel, readable) ==
    LET relationships == preloadRelationships(View(view, writes), {id}, readable)
        resource == constructResource(model, id, relationships, readable)
    IN IF resource.err THEN Err(500)
       ELSE IF rel = "" THEN Res(200, writes, (id :> Resource(resource)), <<>>)
       ELSE Res(200, writes, EmptyFn, resource.relationships[rel])

\* Controller.findResource.
findResource(view, id, fields) ==
    LET init == initialFields(fields)
        res == loadModel(view, id, "find")
    IN IF init.err THEN Err(400)
       ELSE IF res.err THEN Err(500)
       ELSE IF ~res.found THEN Err(404)
       ELSE Respond(view, res.writes, res.model, id, "", init.list)

\* Controller.updateResource served in one piece: load and lock, token check
\* and rotation with consistent update, replace, respond with the resource.
updateResource(view, id, title, tok, create) ==
    LET res == loadModel(view, id, "update")
        storedCreate == IF cfg.IdempotentCreate THEN res.model.token ELSE 0
        stored == IF cfg.ConsistentUpdate THEN res.model.upd ELSE 0
        reset == IF cfg.ConsistentUpdate THEN [res.model EXCEPT !.upd = 0] ELSE res.model
        assigned == [reset EXCEPT !.title = title, !.upd = IF tok # 0 THEN tok ELSE @,
                                  !.token = IF create # 0 THEN create ELSE @]
        locked == View(view, res.writes)
    IN IF res.err THEN Err(500)
       ELSE IF ~res.found THEN Err(404)
       ELSE IF cfg.IdempotentCreate /\ ~TokenKept(assigned, storedCreate) THEN Err(400)
       ELSE IF cfg.ConsistentUpdate
       THEN IF ~TokenValid(assigned, stored) THEN Err(400)
            ELSE LET model == RotateToken(assigned, clock)
                     rep == ReplaceFirst(locked, id, assigned.upd, model)
                 IN IF ~rep.updated THEN Err(409)
                    ELSE Respond(view, rep.writes @@ res.writes, model, id, "", ReadableAll)
       ELSE LET rep == Replace(locked, id, assigned) IN
            Respond(view, rep.writes @@ res.writes, assigned, id, "", ReadableAll)

\* Manager.Update with {$set: {soft delete field: now}}: only the delete
\* timestamp of the stored document is set.
Update(view, id) ==
    IF id \in DOMAIN view THEN (id :> [view[id] EXCEPT !.deleted = TRUE]) ELSE EmptyFn

\* Manager.Delete: the document is removed.
Delete(view, id) == IF id \in DOMAIN view THEN (id :> Tomb) ELSE EmptyFn

\* A soft delete that stores a fresh document carrying only the timestamp.
deleteResource_Reset(view, id) ==
    LET res == loadModel(view, id, "delete") IN
    IF res.err THEN Err(500)
    ELSE IF ~res.found THEN Err(404)
    ELSE Res(204, (id :> [Make EXCEPT !.deleted = TRUE]), EmptyFn, <<>>)

\* Controller.deleteResource: load (and lock), then set the delete timestamp
\* on a soft-delete controller, remove the document otherwise; answer 204.
deleteResource(view, id) ==
    LET res == loadModel(view, id, "delete")
        locked == View(view, res.writes)
    IN IF res.err THEN Err(500)
       ELSE IF ~res.found THEN Err(404)
       ELSE IF cfg.SoftDelete
       THEN Res(204, Update(locked, id) @@ res.writes, EmptyFn, <<>>)
       ELSE Res(204, Delete(locked, id) @@ res.writes, EmptyFn, <<>>)

\* Controller.getRelationship.
getRelationship(view, id, rel) ==
    IF rel \notin DOMAIN Relationships THEN Err(400)
    ELSE LET res == loadModel(view, id, "find") IN
         IF res.err THEN Err(500)
         ELSE IF ~res.found THEN Err(404)
         ELSE Respond(view, res.writes, res.model, id, rel, ReadableAll)

\* Controller.getRelatedResources, the selector of the list sub-request on
\* the related controller: the referenced id(s) for to-one and to-many, the
\* documents whose inverse field holds the model's id for has-one and has-many.
RelatedSelector(view, model, id, rel) ==
    IF Relationships[rel].ToOne
    THEN IF model.parent # 0 THEN {model.parent} ELSE {}
    ELSE IF Relationships[rel].ToMany THEN Range(model.peers)
    ELSE IF Relationships[Relationships[rel].RelInverse].ToOne
    THEN {i \in DOMAIN view : view[i].parent = id}
    ELSE {i \in DOMAIN view : Contains(view[i].peers, id)}

\* Controller.getRelatedResources: the response of the list sub-request,
\* which carries the pagination parameters of the request; a to-one or
\* has-one relationship yielding more than one resource aborts.
getRelatedResources(view, id, rel, paging) ==
    IF rel \notin DOMAIN Relationships THEN Err(400)
    ELSE LET res == loadModel(view, id, "find") IN
         IF res.err THEN Err(500)
         ELSE IF ~res.found THEN Err(404)
         ELSE LET sub == listResources(view, RelatedSelector(view, res.model, id, rel),
                                       {}, paging) IN
              IF sub.status # 200 THEN sub
              ELSE IF (Relationships[rel].ToOne \/ Relationships[rel].HasOne)
                       /\ Cardinality(DOMAIN sub.data) > 1
              THEN Err(500)
              ELSE sub

\* Controller.assignRelationship: a to-one field takes the reference of the
\* body or is unset, a to-many field takes the list of the body as it is.
assignRelationship(model, refs, rel) ==
    IF Relationships[rel].ToOne
    THEN [model EXCEPT !.parent = IF Len(refs) = 1 THEN refs[1] ELSE 0]
    ELSE [model EXCEPT !.peers = refs]

\* The tail of the three relationship writes: replace the model and answer
\* with the linkage of the relationship.
ReplaceAndRespond(view, res, model, id, rel) ==
    LET rep == Replace(View(view, res.writes), id, model) IN
    Respond(view, rep.writes @@ res.writes, model, id, rel, ReadableAll)

\* Controller.setRelationship.
\* A set that is not refused with consistent update.
setRelationship_Partial(view, id, rel, refs) ==
    IF rel \notin DOMAIN Relationships
       \/ (~Relationships[rel].ToOne /\ ~Relationships[rel].ToMany)
    THEN Err(400)
    ELSE LET res == loadModel(view, id, "update") IN
         IF res.err THEN Err(500)
         ELSE IF ~res.found THEN Err(404)
         ELSE ReplaceAndRespond(view, res, assignRelationship(res.model, refs, rel), id, rel)

setRelationship(view, id, rel, refs) ==
    IF cfg.ConsistentUpdate THEN Err(405)
    ELSE IF rel \notin DOMAIN Relationships
            \/ (~Relationships[rel].ToOne /\ ~Relationships[rel].ToMany)
    THEN Err(400)
    ELSE LET res == loadModel(view, id, "update") IN
         IF res.err THEN Err(500)
         ELSE IF ~res.found THEN Err(404)
         ELSE ReplaceAndRespond(view, res, assignRelationship(res.model, refs, rel), id, rel)

\* The append loop adding every reference of the body.
RECURSIVE appendRefs_Always(_, _)
appendRefs_Always(ids, refs) ==
    IF refs = <<>> THEN ids
    ELSE appendRefs_Always(Append(ids, Head(refs)), Tail(refs))

\* Controller.appendToRelationship, "process all references": an id that is
\* already present is skipped, any other is added at the end.
RECURSIVE appendRefs(_, _)
appendRefs(ids, refs) ==
    IF refs = <<>> THEN ids
    ELSE appendRefs(IF Contains(ids, Head(refs)) THEN ids ELSE Append(ids, Head(refs)),
                    Tail(refs))

\* Controller.appendToRelationship.
appendToRelationship(view, id, rel, refs) ==
    IF cfg.ConsistentUpdate THEN Err(405)
    ELSE IF rel \notin DOMAIN Relationships \/ ~Relationships[rel].ToMany THEN Err(400)
    ELSE LET res == loadModel(view, id, "update") IN
         IF res.err THEN Err(500)
         ELSE IF ~res.found THEN Err(404)
         ELSE ReplaceAndRespond(view, res,
                  [res.model EXCEPT !.peers = appendRefs(@, refs)], id, rel)

\* Controller.removeFromRelationship, "process all references": pos is the
\* last index holding the id; the element at pos is cut out if there is one.
RECURSIVE removeRefs(_, _)
removeRefs(ids, refs) ==
    IF refs = <<>> THEN ids
    ELSE LET found == {k \in 1..Len(ids) : ids[k] = Head(refs)}
             pos == IF found = {} THEN 0 ELSE CHOOSE k \in found : \A j \in found : j <= k
         IN removeRefs(IF pos > 0
                       THEN SubSeq(ids, 1, pos - 1) \o SubSeq(ids, pos + 1, Len(ids))
                       ELSE ids,
                       Tail(refs))

\* Controller.removeFromRelationship.
removeFromRelationship(view, id, rel, refs) ==
    IF cfg.ConsistentUpdate THEN Err(405)
    ELSE IF rel \notin DOMAIN Relationships \/ ~Relationships[rel].ToMany THEN Err(400)
    ELSE LET res == loadModel(view, id, "update") IN
         IF res.err THEN Err(500)
         ELSE IF ~res.found THEN Err(404)
         ELSE ReplaceAndRespond(view, res,
                  [res.model EXCEPT !.peers = removeRefs(@, refs)], id, rel)

\* Controller.handleResourceAction for an action the controller defines: the
\* model is loaded without a lock, then the action's handler answers.
handleResourceAction(view, id) ==
    LET res == loadModel(view, id, "action") IN
    IF res.err THEN Err(500)
    ELSE IF ~res.found THEN Err(404)
    ELSE Res(200, EmptyFn, EmptyFn, <<>>)

\* --------------------------------------------------- requests served in turn
\* Controller.handle for a request that runs alone: the handler runs in a
\* transaction on the stored documents, which commits when the handler ends
\* without an abort and is rolled back otherwise. cap bounds the lock counter.
Serve(op, id, rel, refs, fields, out, cap) ==
    /\ last = NoLast
    /\ \A i \in DOMAIN out.writes : out.writes[i] # Tomb => out.writes[i].lk <= cap
    /\ store' = IF out.status < 400 THEN View(store, out.writes) ELSE store
    /\ version' = IF out.status < 400
                  THEN [i \in DOMAIN version |->
                           IF i \in DOMAIN out.writes THEN version[i] + 1 ELSE version[i]]
                  ELSE version
    /\ last' = [op |-> op, id |-> id, rel |-> rel, refs |-> refs, fields |-> fields,
                status |-> out.status, data |-> out.data, linkage |-> out.linkage,
                links |-> out.links]
    /\ UNCHANGED <<cfg, ctx>>

\* The response has been written: the context of the request is discarded.
Discard ==
    /\ last # NoLast
    /\ last' = NoLast
    /\ UNCHANGED <<cfg, store, version, clock, ctx>>

ListResources(FS, PG) ==
    /\ \E fields \in FS, paging \in PG :
          Serve("list", 0, "", <<>>, fields,
                listResources(store, DOMAIN store, fields, paging), MaxLock)
    /\ clock' = clock

FindResource(FS) ==
    /\ \E id \in Ids, fields \in FS :
          Serve("find", id, "", <<>>, fields, findResource(store, id, fields), MaxLock)
    /\ clock' = clock

UpdateResource ==
    \E id \in Ids, title \in Titles,
       tok \in (IF cfg.ConsistentUpdate THEN 0..clock ELSE {0}),
       create \in (IF cfg.IdempotentCreate THEN 0..MaxToken ELSE {0}) :
        LET out == updateResource(store, id, title, tok, create)
            rotated == cfg.ConsistentUpdate /\ out.status = 200
        IN /\ rotated => clock < MaxOID
           /\ Serve("update", id, "", <<>>, {}, out, MaxLock)
           /\ clock' = IF rotated THEN New(clock) ELSE clock

DeleteResource ==
    /\ \E id \in Ids : Serve("delete", id, "", <<>>, {}, deleteResource(store, id), MaxLock)
    /\ clock' = clock

GetRelatedResources(PG) ==
    /\ \E id \in Ids, rel \in RelInputs, paging \in PG :
          Serve("related", id, rel, <<>>, {},
                getRelatedResources(store, id, rel, paging), MaxLock)
    /\ clock' = clock

GetRelationship ==
    /\ \E id \in Ids, rel \in RelInputs :
          Serve("get", id, rel, <<>>, {}, getRelationship(store, id, rel), MaxLock)
    /\ clock' = clock

SetRelationship(B, cap) ==
    /\ \E id \in Ids, rel \in RelInputs, refs \in B :
          Serve("set", id, rel, refs, {}, setRelationship(store, id, rel, refs), cap)
    /\ clock' = clock

AppendToRelationship(B, cap) ==
    /\ \E id \in Ids, rel \in RelInputs, refs \in B :
          Serve("append", id, rel, refs, {}, appendToRelationship(store, id, rel, refs), cap)
    /\ clock' = clock

RemoveFromRelationship(B, cap) ==
    /\ \E id \in Ids, rel \in RelInputs, refs \in B :
          Serve("remove", id, rel, refs, {}, removeFromRelationship(store, id, rel, refs), cap)
    /\ clock' = clock

HandleResourceAction ==
    /\ \E id \in Ids : Serve("action", id, "", <<>>, {}, handleResourceAction(store, id), MaxLock)
    /\ clock' = clock

\* --------------------------------------------------------------- soft delete
\* The entities as createResource stores them: no relationships yet and,
\* with consistent update, an update token each.
InitSoftDelete ==
    /\ cfg \in [IdempotentCreate : {FALSE}, ConsistentUpdate : BOOLEAN,
                SoftDelete : BOOLEAN, ListLimit : {0}]
    /\ store = [i \in Nodes |->
                   [Make EXCEPT !.title = 1,
                                !.upd = IF cfg.ConsistentUpdate THEN Cardinality(Nodes) + i ELSE 0]]
    /\ version = [i \in Nodes |-> 1]
    /\ clock = IF cfg.ConsistentUpdate THEN 2 * Cardinality(Nodes) ELSE Cardinality(Nodes)
    /\ ctx = [r \in Reqs |-> IdleCtx]
    /\ last = NoLast

NextSoftDelete ==
    \/ ListResources({{}}, {NoPaging})
    \/ FindResource({{}})
    \/ UpdateResource
    \/ DeleteResource
    \/ GetRelatedResources({NoPaging})
    \/ GetRelationship
    \/ SetRelationship(Bodies(1), MaxLock)
    \/ AppendToRelationship(Bodies(1), MaxLock)
    \/ RemoveFromRelationship(Bodies(1), MaxLock)
    \/ HandleResourceAction
    \/ Discard

SpecSoftDelete == InitSoftDelete /\ [][NextSoftDelete]_vars

\* Entity e has been soft-deleted.
Gone(e) == cfg.SoftDelete /\ e \in DOMAIN store /\ store[e].deleted

\* The request served last is addressed to the single resource e and is not
\* the Delete that has just soft-deleted it.
LaterOn(e) ==
    /\ last.id = e
    /\ last.op \in {"find", "update", "delete", "related", "get", "set", "append",
                    "remove", "action"}
    /\ ~(last.op = "delete" /\ last.status = 204)

\* The relationship named by the request is one its endpoint accepts: any
\* relationship for the two reads, a to-one or to-many field for set, a
\* to-many field for append and remove.
NamesRelationship(op, rel) ==
    /\ rel \in DOMAIN Relationships
    /\ op = "set" => (Relationships[rel].ToOne \/ Relationships[rel].ToMany)
    /\ op \in {"append", "remove"} => Relationships[rel].ToMany

\* The status a handler ends with before it loads the entity, 0 if it gets
\* as far as loading it: 405 for a relationship write on a consistent-update
\* controller, 400 for a relationship name the endpoint does not accept.
RejectedBeforeLoad(op, rel) ==
    IF op \in {"set", "append", "remove"} /\ cfg.ConsistentUpdate THEN 405
    ELSE IF op \in {"related", "get", "set", "append", "remove"} /\ ~NamesRelationship(op, rel)
    THEN 400
    ELSE 0

\* C5 as claimed: once E is soft-deleted, no List response contains E and
\* every later request addressed to E is answered 404 (read in the claim's
\* favour: every request that names a relationship its endpoint accepts).
C5_Original ==
    \A e \in Nodes : Gone(e) =>
        /\ last.op = "list" => e \notin DOMAIN last.data
        /\ (LaterOn(e) /\ (last.rel # "" => NamesRelationship(last.op, last.rel))) =>
              last.status = 404

\* C5 (amended): once E is soft-deleted, no later List response contains E
\* and no later Find, Update, Delete, relationship request or resource action
\* addressed to E succeeds or changes E: it is answered 404 whenever it gets
\* as far as loading E, and otherwise with the error of the check it failed
\* before the load (405 for a relationship write on a consistent-update
\* controller, 400 for a relationship the endpoint does not accept).
C5_SoftDeleted ==
    \A e \in Nodes : Gone(e) =>
        /\ last.op = "list" => e \notin DOMAIN last.data
        /\ LaterOn(e) =>
              /\ last.status = (IF RejectedBeforeLoad(last.op, last.rel) # 0
                                THEN RejectedBeforeLoad(last.op, last.rel) ELSE 404)
              /\ last.data = EmptyFn /\ last.linkage = <<>>

\* An Update addressed to a soft-deleted entity was answered 404 while the
\* other entity is still served.
C5_Witness ==
    \E e \in Nodes :
        /\ Gone(e) /\ LaterOn(e) /\ last.op = "update" /\ last.status = 404
        /\ \E o \in DOMAIN store : ~store[o].deleted

\* The ids in the linkage of relationship n of the resources of the response.
Linked(n) ==
    UNION {Range(last.data[i].relationships[n]) : i \in DOMAIN last.data}
        \cup (IF last.rel = n THEN Range(last.linkage) ELSE {})

\* The linkage the stored document i has for its to-one or to-many field n.
StoredLinkage(i, n) ==
    IF n = "parent" THEN (IF store[i].parent # 0 THEN <<store[i].parent>> ELSE <<>>)
    ELSE store[i].peers

\* C6 as claimed: once E is soft-deleted its id is in no relationship linkage
\* of any response and in no related-resources response.
C6_Original ==
    \A e \in Nodes : Gone(e) =>
        /\ \A n \in DOMAIN Relationships : e \notin Linked(n)
        /\ last.op = "related" => e \notin DOMAIN last.data

\* C6 (amended): once E is soft-deleted its id is in no has-one or has-many
\* linkage of any response and E is in no related-resources response; the
\* to-one and to-many linkages of a response are the ids stored in the
\* owner's fields as they are, so they keep naming E while an owner refers
\* to it.
C6_Resolution ==
    cfg.SoftDelete =>
        /\ \A e \in Nodes : Gone(e) =>
              /\ \A n \in DOMAIN Relationships :
                    (Relationships[n].HasOne \/ Relationships[n].HasMany) => e \notin Linked(n)
              /\ last.op = "related" => e \notin DOMAIN last.data
        /\ \A i \in DOMAIN last.data : \A n \in {"parent", "peers"} :
              last.data[i].relationships[n] = StoredLinkage(i, n)
        /\ (last.status = 200 /\ last.rel \in {"parent", "peers"}
               /\ last.op \in {"get", "set", "append", "remove"}) =>
              last.linkage = StoredLinkage(last.id, last.rel)

\* The soft-deleted E and the other entity O refer to each other through
\* "parent"; a Find of O returns E in O's to-one linkage and leaves E out of
\* O's has-many linkage.
C6_Witness ==
    \E e, o \in Nodes :
        /\ e # o /\ Gone(e) /\ o \in DOMAIN store /\ ~store[o].deleted
        /\ store[e].parent = o /\ store[o].parent = e
        /\ last.op = "find" /\ last.id = o /\ last.status = 200
        /\ last.data[o].relationships.parent = <<e>>
        /\ last.data[o].relationships.children = <<>>

\* The step that answers a Delete with 204.
Deletes(e) == last'.op = "delete" /\ last'.status = 204 /\ last'.id = e

\* Every stored document but e is left as it is.
OthersKept(e) ==
    \A i \in DOMAIN store \ {e} : i \in DOMAIN store' /\ store'[i] = store[i]

\* C7 as claimed: a successful Delete on a soft-delete controller leaves the
\* stored document unchanged except for the delete timestamp; without
\* soft-delete it removes the document.
C7_Original ==
    [][\A e \in Nodes : Deletes(e) =>
          /\ e \in DOMAIN store /\ OthersKept(e)
          /\ IF cfg.SoftDelete
             THEN e \in DOMAIN store' /\ store'[e] = [store[e] EXCEPT !.deleted = TRUE]
             ELSE DOMAIN store' = DOMAIN store \ {e}]_vars

\* C7 (amended): a successful Delete on a soft-delete controller keeps the
\* stored document and changes two of its fields only: the delete timestamp
\* is set and the lock counter "_lk" is incremented by the locking load;
\* without soft-delete the document is removed. No other document changes.
C7_Delete ==
    [][\A e \in Nodes : Deletes(e) =>
          /\ e \in DOMAIN store /\ OthersKept(e)
          /\ IF cfg.SoftDelete
             THEN /\ e \in DOMAIN store' /\ ~store[e].deleted
                  /\ store'[e] = [store[e] EXCEPT !.deleted = TRUE, !.lk = @ + 1]
             ELSE DOMAIN store' = DOMAIN store \ {e}]_vars

\* An entity with a relationship set was soft-deleted: the document is still
\* stored with the relationship and the timestamp.
C7_Witness ==
    \E e \in Nodes :
        /\ Gone(e) /\ last.op = "delete" /\ last.status = 204 /\ last.id = e
        /\ store[e].parent # 0 /\ store[e].peers = <<>> /\ store[e].lk = 2

\* ------------------------------------------------------ to-many relationship
\* The owner of the to-many relationship; the ids it refers to are Nodes.
Owner == Cardinality(Nodes) + 1

\* One owner, as createResource stores it without relationship data.
InitRelationship ==
    /\ cfg = [IdempotentCreate |-> FALSE, ConsistentUpdate |-> FALSE, SoftDelete |-> FALSE,
              ListLimit |-> 0]
    /\ store = (Owner :> [Make EXCEPT !.title = 1])
    /\ version = (Owner :> 1)
    /\ clock = Owner
    /\ ctx = [r \in Reqs |-> IdleCtx]
    /\ last = NoLast

NextRelationship ==
    \/ GetRelationship
    \/ SetRelationship(Bodies(MaxRefs), MaxWrites)
    \/ AppendToRelationship(Bodies(MaxRefs), MaxWrites)
    \/ RemoveFromRelationship(Bodies(MaxRefs), MaxWrites)
    \/ Discard

SpecRelationship == InitRelationship /\ [][NextRelationship]_vars

\* The step serves the given write on the to-many relationship of a stored
\* entity.
Writes(op) == last'.op = op /\ last'.rel = "peers" /\ last'.id \in DOMAIN store

\* C8: appending to a to-many relationship of a stored entity is answered 200
\* whatever the stored list is; the stored list keeps its elements in place,
\* every id of the body that was present keeps its occurrences, every id that
\* was absent is added exactly once however often the body names it, so that
\* appending ids that are all present leaves the list unchanged.
C8_AppendIdempotent ==
    [][Writes("append") =>
          LET old == store[last'.id].peers
              new == store'[last'.id].peers
              X == Range(last'.refs)
          IN /\ last'.status = 200
             /\ last'.linkage = new
             /\ SubSeq(new, 1, Len(old)) = old
             /\ Range(new) = Range(old) \cup X
             /\ \A x \in X : Count(new, x) = IF Contains(old, x) THEN Count(old, x) ELSE 1
             /\ X \subseteq Range(old) => new = old]_vars

\* The body named the absent id 1 twice; it was added once, and appending the
\* same body again has left the list as it was.
C8_Witness ==
    /\ last.op = "append" /\ last.status = 200 /\ last.id = Owner
    /\ last.refs = <<1, 1>>
    /\ store[Owner].peers = <<2, 1>> /\ store[Owner].lk = 3

\* C9: after a successful removal of X from a to-many relationship X is not
\* in the stored list any more, so that removing X again changes nothing;
\* removing an absent X leaves the list unchanged and is not an error.
C9_RemoveIdempotent ==
    [][Writes("remove") =>
          LET old == store[last'.id].peers
              new == store'[last'.id].peers
              X == Range(last'.refs)
          IN /\ last'.status = 200
             /\ \A x \in X : ~Contains(new, x)
             /\ X \cap Range(old) = {} => new = old]_vars

\* ----------------------------------------------------------- sparse fieldsets
\* The wire names a sparse fieldset may carry: the JSON keys of the
\* attributes, the relationship names, and a name the model does not have.
WireNames == DOMAIN Attributes \cup DOMAIN Relationships \cup {"bogus"}

\* Sparse fieldsets of up to n names; the empty one stands for a request
\* without a fieldset.
FieldSets(n) == {F \in SUBSET WireNames : Cardinality(F) <= n}

\* Two entities as createResource stores them, on a plain controller.
InitFields ==
    /\ cfg = [IdempotentCreate |-> FALSE, ConsistentUpdate |-> FALSE, SoftDelete |-> FALSE,
              ListLimit |-> 0]
    /\ store = [i \in Nodes |-> [Make EXCEPT !.title = 1]]
    /\ version = [i \in Nodes |-> 1]
    /\ clock = Cardinality(Nodes)
    /\ ctx = [r \in Reqs |-> IdleCtx]
    /\ last = NoLast

NextFields ==
    \/ ListResources(FieldSets(MaxFields), {NoPaging})
    \/ FindResource(FieldSets(MaxFields))
    \/ SetRelationship(Bodies(1), MaxLock)
    \/ Discard

SpecFields == InitFields /\ [][NextFields]_vars

\* The attribute keys and the relationship names the model exposes.
ExposedAttributes == {Fields[f].JSONKey : f \in DOMAIN Fields} \ {""}

ExposedRelationships == {Fields[f].RelName : f \in DOMAIN Fields} \ {""}

\* C10: a List or Find with a sparse fieldset F of valid field names returns
\* resources that carry exactly the attributes of F and exactly the
\* relationships of F, all exposed fields being readable; a fieldset with an
\* unknown name is answered 400, and a request without a fieldset returns
\* every exposed field.
C10_SparseFields ==
    last.op \in {"list", "find"} =>
        LET F == last.fields
            wanted == IF F = {} THEN ExposedAttributes \cup ExposedRelationships ELSE F
        IN IF F \subseteq ExposedAttributes \cup ExposedRelationships
           THEN /\ last.status \in {200, 500}
                /\ last.status = 200 =>
                      /\ DOMAIN last.data = (IF last.op = "find" THEN {last.id} ELSE DOMAIN store)
                      /\ \A i \in DOMAIN last.data :
                            /\ DOMAIN last.data[i].attributes = wanted \cap ExposedAttributes
                            /\ DOMAIN last.data[i].relationships = wanted \cap ExposedRelationships
                /\ last.status = 500 => "mate" \in wanted
           ELSE last.status = 400 /\ last.data = EmptyFn

\* A List asked for one attribute and one has-many relationship: both
\* resources carry exactly these two, the relationship with its linkage.
C10_Witness ==
    /\ last.op = "list" /\ last.status = 200 /\ last.fields = {"title", "children"}
    /\ DOMAIN last.data = Nodes
    /\ \A i \in Nodes :
          /\ DOMAIN last.data[i].attributes = {"title"}
          /\ DOMAIN last.data[i].relationships = {"children"}
    /\ last.data[1].relationships.children = <<2>>

\* ------------------------------------------------------------------ pipeline
\* The intents of the JSON-API requests the parser hands to the controller.
Intents ==
    {"list", "find", "create", "update", "delete", "related", "get", "set",
     "append", "remove", "collection-action", "resource-action"}

\* Controller.handle, "set operation": the relationship reads count as Find,
\* the relationship writes as Update.
Operation(intent) ==
    IF intent \in {"related", "get"} THEN "find"
    ELSE IF intent \in {"set", "append", "remove"} THEN "update"
    ELSE intent

Operations == {Operation(i) : i \in Intents}

\* No operation counting as an action.
Action_None(op) == FALSE

\* Operation.Action: the two action operations.
Action(op) == op \in {"collection-action", "resource-action"}

\* The Supported matchers a controller may carry: All(), Only(List, Find)
\* and Except(Find).
Matchers == {Operations, {"list", "find"}, Operations \ {"find"}}

\* No resource id in the request, and a resource id that is not a hex id.
NoID == 0

BadID == 0 - 1

\* coal.IsHex on the resource id of the request.
IsHex(id) == id > 0

\* No error.
Nil == [kind |-> "nil", Status |-> 0, Detail |-> ""]

\* jsonapi.ErrorFromStatus, jsonapi.BadRequest, jsonapi.NotFound: a JSON-API
\* error with a status and a detail.
ErrorFromStatus(status, detail) == [kind |-> "jsonapi", Status |-> status, Detail |-> detail]

NotFound(detail) == ErrorFromStatus(404, detail)

\* A bad request answered as not found.
BadRequest_NotFound(detail) == ErrorFromStatus(404, detail)

BadRequest(detail) == ErrorFromStatus(400, detail)

\* fmt.Errorf and the errors of the storage: a plain error.
Errorf(detail) == [kind |-> "plain", Status |-> 0, Detail |-> detail]

\* fire.E: an error marked safe.
E(detail) == [kind |-> "safe", Status |-> 0, Detail |-> detail]

\* ErrAccessDenied, which any callback may return to deny access.
ErrAccessDenied == ErrorFromStatus(401, "access denied")

\* What a callback may return: nil, a safe error, a plain error, or the
\* JSON-API error ErrAccessDenied.
Returns == {Nil, E("field title is protected"), Errorf("model is not validatable"),
            ErrAccessDenied}

\* The callbacks of each callback list of the controller that match the
\* request.
NumCallbacks == 2

\* The error status of a callback list: unauthorized for the authorizers,
\* bad request for the validators and the action handlers, internal server
\* error for the decorators and notifiers.
ErrorStatus(point) ==
    IF point = "authorizers" THEN 401
    ELSE IF point \in {"validators", "action"} THEN 400
    ELSE 500

\* runCallbacks passing every error on as it is.
runCallbacks_Raw(err, errorStatus) == err

\* Controller.runCallbacks for the error a callback returned: a safe error
\* aborts with a JSON-API error of the list's status carrying its message,
\* any other error aborts with the error itself.
runCallbacks(err, errorStatus) ==
    IF err.kind = "safe" THEN ErrorFromStatus(errorStatus, err.Detail) ELSE err

\* Controller.runAction: the same for the error of an action handler.
runAction(err, errorStatus) == runCallbacks(err, errorStatus)

\* The dispatch boundary rendering every error with its own message.
Render_Verbatim(err) ==
    IF err.kind = "jsonapi" THEN [status |-> err.Status, detail |-> err.Detail]
    ELSE [status |-> 500, detail |-> err.Detail]

\* The dispatch boundary the aborts unwind to: a JSON-API error is written
\* as it is, any other error as an internal server error without a detail.
Render(err) ==
    IF err.kind = "jsonapi" THEN [status |-> err.Status, detail |-> err.Detail]
    ELSE [status |-> 500, detail |-> ""]

\* The inbound documents: none, or a resource with an id, attributes given
\* by their keys and relationships given by their names. A supplied "title"
\* carries the value MaxTitle, a supplied relationship a reference to entity 1.
NoDocument == [One |-> FALSE, ID |-> NoID, Attributes |-> {}, Relationships |-> {}]

Documents(ids) ==
    {NoDocument} \cup
    [One : {TRUE}, ID : ids,
     Attributes : {{}, {"title"}, {"bogus"}},
     Relationships : {{}, {"parent"}, {"children"}, {"bogus"}}]

\* The sparse fieldsets of the pipeline requests: none, a valid one and one
\* with a name the model does not have.
Fieldsets == {{}, {"title"}, {"bogus"}}

\* The context of a request that has not arrived. plan holds the points the
\* handler still has to pass, trace the points it has passed, each with
\* whether a transaction was open; cb is the callback error that ended it.
IdlePipe ==
    [pc |-> "idle", intent |-> "", op |-> "none", id |-> NoID, rel |-> "",
     refs |-> <<>>, fields |-> {}, doc |-> NoDocument, plan |-> <<>>,
     trace |-> <<>>, tx |-> FALSE, started |-> FALSE, snap |-> EmptyFn,
     snapVer |-> EmptyFn, writes |-> EmptyFn, model |-> NoDoc, models |-> {},
     readable |-> {}, writable |-> {}, pending |-> 0, data |-> EmptyFn,
     linkage |-> <<>>, status |-> 0, detail |-> "", cb |-> Nil, action |-> "",
     filters |-> {}]

\* Handlers that load the model, or call the action, before the authorizers.
Handler_LoadFirst(intent) ==
    IF intent = "collection-action" THEN <<"action", "authorizers">>
    ELSE IF intent = "resource-action" THEN <<"load", "action", "authorizers">>
    ELSE <<"load", "authorizers", "decorators", "respond", "notifiers">>

\* Action handlers that run the validators before the action.
Handler_Validated(intent) ==
    IF intent \in {"collection-action", "resource-action"}
    THEN <<"check", "authorizers", "validators", "action">>
    ELSE Handler_LoadFirst(intent)

\* The calls of each handler in the order of its code. "check" stands for
\* the structural checks at its top, "permit" for the readable or writable
\* check of the relationship, "respond" for preloading and composing the
\* response, "sub" for the list request on the related controller.
Handler(intent) ==
    CASE intent \in {"list", "find"} ->
            <<"authorizers", "load", "decorators", "respond", "notifiers">>
      [] intent = "create" ->
            <<"check", "authorizers", "assign", "validators", "write",
              "decorators", "respond", "notifiers">>
      [] intent = "update" ->
            <<"check", "authorizers", "load", "assign", "validators", "write",
              "decorators", "respond", "notifiers">>
      [] intent = "delete" ->
            <<"authorizers", "load", "validators", "write", "notifiers">>
      [] intent = "related" ->
            <<"check", "authorizers", "load", "permit", "sub">>
      [] intent = "get" ->
            <<"check", "authorizers", "load", "permit", "decorators", "respond",
              "notifiers">>
      [] intent \in {"set", "append", "remove"} ->
            <<"check", "authorizers", "load", "permit", "assign", "validators",
              "write", "decorators", "respond", "notifiers">>
      [] intent = "collection-action" -> <<"check", "authorizers", "action">>
      [] intent = "resource-action" -> <<"check", "authorizers", "load", "action">>

\* The point the handler is at.
At(r, points) ==
    /\ ctx[r].pc = "run"
    /\ ctx[r].plan # <<>>
    /\ Head(ctx[r].plan) \in points

\* The point has been entered and has ended, without an abort or with one.
\* calls counts the callbacks a callback list has called.
Ran(c, ok) ==
    [c EXCEPT !.trace = Append(@, [point |-> Head(c.plan), tx |-> c.tx,
                                   calls |-> 0, ok |-> ok])]

\* The callbacks the point that has just ended has called.
Called(c, n) == [c EXCEPT !.trace[Len(c.trace)].calls = n]

\* The point ended without an abort: the handler goes on, and returns to
\* handle when it was the last.
Passed(c) ==
    [Ran(c, TRUE) EXCEPT !.plan = Tail(@),
                   !.pc = IF Tail(c.plan) = <<>> THEN "commit" ELSE "run"]

\* An abort whose transaction is committed all the same.
Reject_Commit(c, err) ==
    [c EXCEPT !.pc = "commit", !.pending = Render(err).status,
              !.detail = Render(err).detail]

\* stack.Abort: the request ends with the rendered error and its
\* transaction is rolled back.
Reject(c, err) ==
    [Abort(c, Render(err).status) EXCEPT !.detail = Render(err).detail]

\* An abort that lets the handler go on with its next call.
Fail_Continue(c, err) ==
    [Ran(c, FALSE) EXCEPT !.plan = Tail(@),
                          !.pc = IF Tail(c.plan) = <<>> THEN "commit" ELSE "run"]

\* stack.Abort at the current point of the handler.
Fail(c, err) == Reject(Ran(c, FALSE), err)

\* The first storage operation of a transaction takes its snapshot.
Touch(c) ==
    IF c.started \/ ~c.tx THEN c
    ELSE [c EXCEPT !.started = TRUE, !.snap = store, !.snapVer = version]

\* What a storage operation of the request reads: the view of its
\* transaction, or the committed documents when it has none.
Seen(c) == IF c.tx THEN View(c.snap, c.writes) ELSE store

\* A query that leaves the filters of the context out.
Query_Selector(view, filters) == view

\* Context.Query: the selector and the filters of the context are combined,
\* so a query finds the documents that none of the filters excludes. A
\* filter is recorded by the documents it excludes.
Query(view, filters) == [i \in DOMAIN view \ filters |-> view[i]]

\* The filters the authorizers of the controller add to the context
\* (cfg.Hidden: the documents they exclude); they add none on a Create and a
\* collection action.
AddFilter(c) ==
    IF Head(c.plan) = "authorizers" /\ c.intent \notin {"create", "collection-action"}
    THEN c.filters \cup cfg.Hidden
    ELSE c.filters

\* The Supported check letting every operation pass.
Supports_All(op) == TRUE

\* Controller.handle, "check if supported".
Supports(op) == op \in cfg.Supported

\* handle preparing the context without looking at the sparse fieldset.
prepare_Unchecked(c, op) ==
    [c EXCEPT !.op = op, !.pc = "run", !.plan = Handler(c.intent),
              !.tx = ~Action(op), !.readable = ReadableAll, !.writable = ReadableAll]

\* Controller.handle, "prepare context" and "run operation": the readable
\* fields come from the sparse fieldset (an unknown name aborts with 400),
\* the writable fields are all fields, and the handler runs in a transaction
\* unless the operation is an action.
prepare(c, op) ==
    LET init == initialFields(c.fields) IN
    IF init.err THEN Reject([c EXCEPT !.op = op], BadRequest("invalid sparse field"))
    ELSE [c EXCEPT !.op = op, !.pc = "run", !.plan = Handler(c.intent),
                   !.tx = ~Action(op), !.readable = init.list,
                   !.writable = ReadableAll]

\* Controller.handle up to the call of the handler: the resource id is
\* validated, the operation is set and checked against Supported, and the
\* context is prepared.
handle(c) ==
    LET op == Operation(c.intent) IN
    IF c.id # NoID /\ ~IsHex(c.id)
    THEN Reject(c, BadRequest("invalid resource id"))
    ELSE IF ~Supports(op)
    THEN Reject([c EXCEPT !.op = op], ErrorFromStatus(405, "unsupported operation"))
    ELSE prepare(c, op)

\* The resource ids a pipeline request may carry: the stored entity, an
\* entity that is not stored, and an id that is not a hex id.
Targets == Nodes \cup {BadID}

\* The requests of an intent: resource id, relationship, references and
\* document as the intent takes them.
Requests(intent) ==
    CASE intent \in {"list", "collection-action"} ->
            [id : {NoID}, rel : {""}, refs : {<<>>}, doc : {NoDocument}]
      [] intent = "create" ->
            [id : {NoID}, rel : {""}, refs : {<<>>}, doc : Documents({NoID, 1})]
      [] intent = "update" ->
            UNION {[id : {i}, rel : {""}, refs : {<<>>}, doc : Documents({i, NoID})] :
                      i \in Targets}
      [] intent \in {"find", "delete", "resource-action"} ->
            [id : Targets, rel : {""}, refs : {<<>>}, doc : {NoDocument}]
      [] intent \in {"related", "get"} ->
            [id : Targets, rel : RelInputs, refs : {<<>>}, doc : {NoDocument}]
      [] intent \in {"set", "append", "remove"} ->
            [id : Targets, rel : RelInputs, refs : Bodies(1), doc : {NoDocument}]

\* The actions the controller defines, one in CollectionActions and one in
\* ResourceActions under the same name.
Actions == {"act"}

\* The action names a request of the intent can carry.
ActionNames(intent) ==
    IF intent \in {"collection-action", "resource-action"} THEN {"act", "other"}
    ELSE {""}

\* A request arrives and passes Controller.handle up to its handler.
Handle(r, I, FS) ==
    /\ ctx[r].pc = "idle"
    /\ \E intent \in I, fields \in FS :
          \E q \in Requests(intent), a \in ActionNames(intent) :
             ctx' = [ctx EXCEPT ![r] =
                        handle([IdlePipe EXCEPT !.intent = intent, !.fields = fields,
                                                !.id = q.id, !.rel = q.rel,
                                                !.refs = q.refs, !.doc = q.doc,
                                                !.action = a])]
    /\ UNCHANGED <<cfg, store, version, clock, last>>

\* The structural checks at the top of a handler: the document of a Create
\* or Update, the relationship of a relationship request, no partial
\* update with consistent update, and the callback of an action.
checkRequest(c) ==
    CASE c.intent = "create" ->
            IF ~c.doc.One THEN BadRequest("missing document")
            ELSE IF c.doc.ID # NoID THEN BadRequest("unnecessary resource id")
            ELSE Nil
      [] c.intent = "update" ->
            IF ~c.doc.One THEN BadRequest("missing document")
            ELSE IF c.doc.ID # c.id THEN BadRequest("resource id mismatch")
            ELSE Nil
      [] c.intent \in {"related", "get"} ->
            IF c.rel \notin DOMAIN Relationships THEN BadRequest("invalid relationship")
            ELSE Nil
      [] c.intent = "set" ->
            IF cfg.ConsistentUpdate
            THEN ErrorFromStatus(405, "partial updates not allowed with consistent updates")
            ELSE IF c.rel \notin DOMAIN Relationships
                    \/ (~Relationships[c.rel].ToOne /\ ~Relationships[c.rel].ToMany)
            THEN BadRequest("invalid relationship")
            ELSE Nil
      [] c.intent \in {"append", "remove"} ->
            IF cfg.ConsistentUpdate
            THEN ErrorFromStatus(405, "partial updates not allowed with consistent updates")
            ELSE IF c.rel \notin DOMAIN Relationships \/ ~Relationships[c.rel].ToMany
            THEN BadRequest("invalid relationship")
            ELSE Nil
      [] c.intent = "collection-action" ->
            IF c.action \notin Actions THEN Errorf("missing collection action callback")
            ELSE Nil
      [] c.intent = "resource-action" ->
            IF c.action \notin Actions THEN Errorf("missing resource action callback")
            ELSE Nil

CheckRequest(r) ==
    /\ At(r, {"check"})
    /\ LET c == ctx[r]
           err == checkRequest(c)
       IN ctx' = [ctx EXCEPT ![r] = IF err = Nil THEN Passed(c) ELSE Fail(c, err)]
    /\ UNCHANGED <<cfg, store, version, clock, last>>

\* The writable fields an authorizer may leave in the context of a Create or
\* Update: all fields, all but the title, or all but the parent.
Restrictions(c) ==
    IF Head(c.plan) = "authorizers" /\ c.intent \in {"create", "update"}
    THEN {c.writable, c.writable \ {"Title"}, c.writable \ {"Parent"}}
    ELSE {c.writable}

\* Controller.runCallbacks on one of the four callback lists, each holding
\* NumCallbacks matching callbacks: they are called one after the other;
\* every callback returns nil, or the k-th returns an error, which ends the
\* loop and the request.
RunCallbacks(r) ==
    /\ At(r, {"authorizers", "validators", "decorators", "notifiers"})
    /\ \E ret \in Returns, k \in 1..NumCallbacks :
          LET c == ctx[r]
              err == runCallbacks(ret, ErrorStatus(Head(c.plan)))
          IN IF err = Nil
             THEN \E w \in Restrictions(c) :
                     ctx' = [ctx EXCEPT ![r] =
                                [Called(Passed(c), NumCallbacks) EXCEPT
                                    !.writable = w, !.filters = AddFilter(c)]]
             ELSE ctx' = [ctx EXCEPT ![r] = [Called(Fail(c, err), k) EXCEPT !.cb = ret]]
    /\ UNCHANGED <<cfg, store, version, clock, last>>

\* Controller.loadModel after the authorizers: the model is looked up, and
\* locked when the operation writes; a missing model ends the request.
LoadModel(r) ==
    /\ At(r, {"load"})
    /\ ctx[r].intent # "list"
    /\ LET c == Touch(ctx[r])
           res == FindFirst(r, Query(Seen(c), c.filters), c.snapVer, c.id, Write(c.op))
       IN /\ (res.found /\ Write(c.op)) => res.model.lk <= MaxLock
          /\ ctx' = [ctx EXCEPT ![r] =
                IF res.err THEN Fail(c, Errorf("write conflict"))
                ELSE IF ~res.found THEN Fail(c, NotFound("resource not found"))
                ELSE [Passed(c) EXCEPT !.model = res.model,
                                       !.writes = res.writes @@ c.writes]]
    /\ UNCHANGED <<cfg, store, version, clock, last>>

\* Controller.loadModels after the authorizers.
LoadModels(r) ==
    /\ At(r, {"load"})
    /\ ctx[r].intent = "list"
    /\ LET c == Touch(ctx[r]) IN
       ctx' = [ctx EXCEPT ![r] =
                  [Passed(c) EXCEPT !.models = loadModels(Query(Seen(c), c.filters),
                                                          DOMAIN Seen(c))]]
    /\ UNCHANGED <<cfg, store, version, clock, last>>

\* The check of the relationship against the readable fields in the two
\* relationship reads and against the writable fields in the three writes.
CheckField(r) ==
    /\ At(r, {"permit"})
    /\ LET c == ctx[r] IN
       ctx' = [ctx EXCEPT ![r] =
          IF c.intent \in {"related", "get"}
          THEN IF RelField(c.rel) \in c.readable THEN Passed(c)
               ELSE Fail(c, BadRequest("relationship is not readable"))
          ELSE IF RelField(c.rel) \in c.writable THEN Passed(c)
               ELSE Fail(c, BadRequest("relationship is not writable"))]
    /\ UNCHANGED <<cfg, store, version, clock, last>>

\* assignData dropping every key that is not writable.
assignData_Tolerant(model, doc, writable) ==
    LET whitelist == Whitelist(writable) IN
    [err |-> Nil,
     model |-> [model EXCEPT
                  !.title = IF "title" \in doc.Attributes \cap whitelist THEN MaxTitle ELSE @,
                  !.parent = IF "parent" \in doc.Relationships \cap whitelist THEN 1 ELSE @]]

\* assignData assigning every known key, writable or not.
assignData_Unchecked(model, doc, writable) ==
    IF doc.Attributes \ DOMAIN Attributes # {}
    THEN [err |-> BadRequest("invalid attribute"), model |-> model]
    ELSE IF doc.Relationships \ DOMAIN Relationships # {}
    THEN [err |-> BadRequest("invalid relationship"), model |-> model]
    ELSE [err |-> Nil,
          model |-> [model EXCEPT
                       !.title = IF "title" \in doc.Attributes THEN MaxTitle ELSE @,
                       !.parent = IF "parent" \in doc.Relationships THEN 1 ELSE @]]

\* Controller.assignData: the writable fields are converted to keys and
\* names; an unknown attribute or relationship aborts with 400, and so does
\* one that is not whitelisted (or a has-one or has-many relationship)
\* unless violations are tolerated; the other values are assigned.
assignData(model, doc, writable) ==
    LET whitelist == Whitelist(writable)
        known == doc.Attributes \cap DOMAIN Attributes
        named == doc.Relationships \cap DOMAIN Relationships
        denied == {n \in named : n \notin whitelist
                      \/ (~Relationships[n].ToOne /\ ~Relationships[n].ToMany)}
        assigned == [model EXCEPT
                       !.title = IF "title" \in known \cap whitelist THEN MaxTitle ELSE @]
        related == [assigned EXCEPT
                       !.parent = IF "parent" \in named \ denied THEN 1 ELSE @]
    IN IF doc.Attributes \ DOMAIN Attributes # {}
       THEN [err |-> BadRequest("invalid attribute"), model |-> model]
       ELSE IF known \ whitelist # {} /\ ~cfg.TolerateViolations
       THEN [err |-> BadRequest("attribute is not writable"), model |-> model]
       ELSE IF doc.Relationships \ DOMAIN Relationships # {}
       THEN [err |-> BadRequest("invalid relationship"), model |-> assigned]
       ELSE IF denied # {} /\ ~cfg.TolerateViolations
       THEN [err |-> BadRequest("relationship is not writable"), model |-> assigned]
       ELSE [err |-> Nil, model |-> related]

\* The assignment of the inbound data: a Create makes the model with a new
\* id and assigns the document, an Update assigns the document to the loaded
\* model, the relationship writes assign, append or remove the references.
AssignData(r) ==
    /\ At(r, {"assign"})
    /\ LET c == ctx[r] IN
       CASE c.intent = "create" ->
               /\ clock < MaxOID
               /\ clock' = New(clock)
               /\ LET res == assignData(Make, c.doc, c.writable) IN
                  ctx' = [ctx EXCEPT ![r] =
                     IF res.err # Nil THEN Fail(c, res.err)
                     ELSE [Passed(c) EXCEPT !.id = New(clock), !.model = res.model]]
         [] c.intent = "update" ->
               /\ clock' = clock
               /\ LET res == assignData(c.model, c.doc, c.writable) IN
                  ctx' = [ctx EXCEPT ![r] =
                     IF res.err # Nil THEN Fail(c, res.err)
                     ELSE [Passed(c) EXCEPT !.model = res.model]]
         [] c.intent = "set" ->
               /\ clock' = clock
               /\ ctx' = [ctx EXCEPT ![r] =
                     [Passed(c) EXCEPT !.model = assignRelationship(c.model, c.refs, c.rel)]]
         [] c.intent = "append" ->
               /\ clock' = clock
               /\ ctx' = [ctx EXCEPT ![r] =
                     [Passed(c) EXCEPT !.model.peers = appendRefs(@, c.refs)]]
         [] c.intent = "remove" ->
               /\ clock' = clock
               /\ ctx' = [ctx EXCEPT ![r] =
                     [Passed(c) EXCEPT !.model.peers = removeRefs(@, c.refs)]]
    /\ UNCHANGED <<cfg, store, version, last>>

\* Manager.Insert: the model is stored under its id.
Insert(id, model) == (id :> model)

\* The persistence write of the handler: the insert of a Create, the replace
\* of an Update or a relationship write, the removal (or the update of the
\* delete timestamp) of a Delete, which then sets the status 204.
Persist(r) ==
    /\ At(r, {"write"})
    /\ LET c == Touch(ctx[r])
           w == CASE c.intent = "create" -> Insert(c.id, c.model)
                  [] c.intent = "delete" ->
                        IF cfg.SoftDelete THEN Update(Seen(c), c.id) ELSE Delete(Seen(c), c.id)
                  [] OTHER -> Replace(Seen(c), c.id, c.model).writes
       IN ctx' = [ctx EXCEPT ![r] =
                     [Passed(c) EXCEPT !.writes = w @@ c.writes,
                                       !.pending = IF c.intent = "delete" THEN 204 ELSE @]]
    /\ UNCHANGED <<cfg, store, version, clock, last>>

\* The response of the handler: the resources of a List, the resource of a
\* Find, Create (201, has-one and has-many left empty) or Update, the linkage
\* of the relationship for the relationship requests. A has-one relationship
\* with more than one reference aborts.
ComposeResponse(r) ==
    /\ At(r, {"respond"})
    /\ LET c == ctx[r]
           view == Seen(c)
           ids == IF c.intent = "list" THEN c.models ELSE {c.id}
           relationships ==
               IF c.intent = "create"
               THEN [n \in DOMAIN Relationships |-> [i \in ids |-> <<>>]]
               ELSE preloadRelationships(view, ids, c.readable)
           resources ==
               [i \in ids |->
                   constructResource(IF c.intent = "list" THEN view[i] ELSE c.model,
                                     i, relationships, c.readable)]
       IN ctx' = [ctx EXCEPT ![r] =
             IF \E i \in ids : resources[i].err
             THEN Fail(c, Errorf("has one relationship returned more than one result"))
             ELSE IF c.rel = ""
             THEN [Passed(c) EXCEPT !.pending = IF c.intent = "create" THEN 201 ELSE 200,
                                    !.data = [i \in ids |-> Resource(resources[i])]]
             ELSE [Passed(c) EXCEPT !.pending = 200,
                      !.linkage = IF c.rel \in DOMAIN resources[c.id].relationships
                                  THEN resources[c.id].relationships[c.rel] ELSE <<>>]]
    /\ UNCHANGED <<cfg, store, version, clock, last>>

\* Controller.getRelatedResources after the load: the list request on the
\* related controller, which checks Supported for List and answers with the
\* related resources; more than one resource for a to-one or has-one
\* relationship aborts.
RelatedRequest(r) ==
    /\ At(r, {"sub"})
    /\ LET c == ctx[r]
           view == Seen(c)
           sub == listResources(view, RelatedSelector(view, c.model, c.id, c.rel),
                                c.fields, NoPaging)
       IN ctx' = [ctx EXCEPT ![r] =
             IF ~Supports("list")
             THEN Fail(c, ErrorFromStatus(405, "unsupported operation"))
             ELSE IF sub.status # 200
             THEN Fail(c, Errorf("has one relationship returned more than one result"))
             ELSE IF (Relationships[c.rel].ToOne \/ Relationships[c.rel].HasOne)
                      /\ Cardinality(DOMAIN sub.data) > 1
             THEN Fail(c, Errorf("relationship returned more than one result"))
             ELSE [Passed(c) EXCEPT !.pending = 200, !.data = sub.data]]
    /\ UNCHANGED <<cfg, store, version, clock, last>>

\* Controller.runAction: the handler of the action answers, or returns an
\* error.
RunAction(r) ==
    /\ At(r, {"action"})
    /\ \E ret \in Returns :
          LET c == ctx[r]
              err == runAction(ret, ErrorStatus("action"))
          IN ctx' = [ctx EXCEPT ![r] =
                IF err = Nil THEN [Called(Passed(c), 1) EXCEPT !.pending = 200]
                ELSE [Called(Fail(c, err), 1) EXCEPT !.cb = ret]]
    /\ UNCHANGED <<cfg, store, version, clock, last>>

\* One stored entity, as createResource stores it; entity 2 is not stored.
InitPipeline ==
    /\ cfg \in [IdempotentCreate : {FALSE}, ConsistentUpdate : {FALSE},
                SoftDelete : {FALSE}, ListLimit : {0}, Supported : Matchers,
                TolerateViolations : BOOLEAN, Hidden : {{}}]
    /\ store = (1 :> [Make EXCEPT !.title = 1])
    /\ version = (1 :> 1)
    /\ clock = 1
    /\ ctx = [r \in Reqs |-> IdlePipe]
    /\ last = NoLast

\* One request passes the pipeline.
NextPipeline ==
    \/ Handle(1, Intents, Fieldsets)
    \/ CheckRequest(1)
    \/ RunCallbacks(1)
    \/ LoadModel(1)
    \/ LoadModels(1)
    \/ CheckField(1)
    \/ AssignData(1)
    \/ Persist(1)
    \/ ComposeResponse(1)
    \/ RelatedRequest(1)
    \/ RunAction(1)
    \/ Commit(1)

SpecPipeline == InitPipeline /\ [][NextPipeline]_vars

\* The requests that have arrived.
Arrived == {r \in Reqs : ctx[r].pc # "idle"}

\* The sparse fieldset of the request names a field the model does not have.
UnknownField(r) ==
    ctx[r].fields \ (ExposedAttributes \cup ExposedRelationships) # {}

\* The request has run no callback and no storage operation.
Untouched(r) ==
    /\ ctx[r].trace = <<>> /\ ~ctx[r].started /\ ctx[r].writes = EmptyFn
    /\ ctx[r].model = NoDoc
    /\ store = (1 :> [Make EXCEPT !.title = 1])

\* C11 as claimed: a request whose sparse fieldset names an unknown field
\* always ends with status 400, with no callback, load or storage write.
C11_Original ==
    \A r \in Arrived : UnknownField(r) =>
        ctx[r].pc = "done" /\ ctx[r].status = 400 /\ Untouched(r)

\* C11 (amended): a request whose sparse fieldset names an unknown field ends
\* before any callback, load or storage write; it ends with status 400
\* unless its operation is not in the controller's Supported set, which is
\* checked first and ends it with 405.
C11_UnknownField ==
    \A r \in Arrived : UnknownField(r) =>
        /\ ctx[r].pc = "done" /\ Untouched(r)
        /\ ctx[r].status =
              IF IsHex(ctx[r].id) \/ ctx[r].id = NoID
              THEN (IF Operation(ctx[r].intent) \in cfg.Supported THEN 400 ELSE 405)
              ELSE 400

\* An Update of the stored entity with a writable attribute was answered 400
\* for the unknown name in its fieldset.
C11_Witness ==
    \E r \in Arrived :
        /\ UnknownField(r) /\ ctx[r].intent = "update" /\ ctx[r].id = 1
        /\ ctx[r].doc.One /\ ctx[r].doc.Attributes = {"title"}
        /\ "update" \in cfg.Supported
        /\ ctx[r].status = 400 /\ ctx[r].detail = "invalid sparse field"

\* The pipeline points in their order; the other calls of a handler (the
\* structural checks, the load, composing the response) have no rank.
Rank(point) ==
    CASE point = "authorizers" -> 1
      [] point = "assign" -> 2
      [] point = "validators" -> 3
      [] point = "write" -> 4
      [] point = "decorators" -> 5
      [] point = "notifiers" -> 6
      [] OTHER -> 0

CallbackLists == {"authorizers", "validators", "decorators", "notifiers"}

C14_NoRerun ==
    [][\A r \in Reqs :
          /\ ctx[r].pc = "done" => ctx'[r].trace = ctx[r].trace
          /\ ctx[r].pc \in {"run", "commit"} =>
                /\ Len(ctx'[r].trace) \in {Len(ctx[r].trace), Len(ctx[r].trace) + 1}
                /\ SubSeq(ctx'[r].trace, 1, Len(ctx[r].trace)) = ctx[r].trace]_vars

C14_Stopped ==
    \E r \in Arrived :
        /\ ctx[r].intent = "create" /\ ctx[r].pc = "done" /\ ctx[r].status = 400
        /\ ctx[r].cb = E("field title is protected")
        /\ [i \in 1..Len(ctx[r].trace) |-> ctx[r].trace[i].point] =
              <<"check", "authorizers", "assign", "validators">>
        /\ ctx[r].trace[4].calls = 2

\* The stored documents before the request.
Before == (1 :> [Make EXCEPT !.title = 1])

\* A call of the request's handler ended with an error.
Failed(r) == \E i \in 1..Len(ctx[r].trace) : ~ctx[r].trace[i].ok

\* The request issued its insert, replace or delete.
Wrote(r) ==
    \E i \in 1..Len(ctx[r].trace) : ctx[r].trace[i].point = "write" /\ ctx[r].trace[i].ok

\* C15: when a point of a non-action request fails, also a decorator or
\* notifier after the insert, replace or delete was issued, the transaction
\* is rolled back: the stored documents are those before the request, and
\* the response carries an error status and no resource.
C15_Rollback ==
    \A r \in Arrived :
        (Failed(r) /\ ~Action(ctx[r].op)) =>
            /\ ctx[r].pc = "done" /\ ctx[r].writes = EmptyFn
            /\ store = Before /\ version = (1 :> 1)
            /\ ctx[r].status >= 400

\* C15, in steps: the stored documents change only when a request whose
\* every call succeeded commits.
C15_CommitOnly ==
    [][store' # store =>
          \E r \in Reqs : /\ ctx[r].pc = "commit" /\ ctx'[r].pc = "done"
                           /\ ~Failed(r) /\ ctx'[r].status < 400]_vars

\* A Create whose notifier failed after the insert: the entity is not stored.
C15_Witness ==
    \E r \in Arrived :
        /\ ctx[r].intent = "create" /\ ctx[r].pc = "done" /\ Wrote(r)
        /\ ctx[r].trace[Len(ctx[r].trace)].point = "notifiers"
        /\ ~ctx[r].trace[Len(ctx[r].trace)].ok
        /\ ctx[r].status = 500 /\ DOMAIN store = {1}

\* A Delete whose notifier failed after the removal: the entity is stored.
C15_Restored ==
    \E r \in Arrived :
        /\ ctx[r].intent = "delete" /\ ctx[r].pc = "done" /\ Wrote(r) /\ Failed(r)
        /\ store = Before

\* C17: a request whose Operation is not in the controller's Supported set
\* is answered 405 before any callback and any storage access; the Operation
\* of a related-resources or relationship read is Find, that of a
\* relationship set, append or remove is Update, that of any other intent
\* the intent itself.
C17_Unsupported ==
    \A r \in Arrived :
        ctx[r].op # "none" =>
            /\ ctx[r].op =
                  (IF ctx[r].intent \in {"related", "get"} THEN "find"
                   ELSE IF ctx[r].intent \in {"set", "append", "remove"} THEN "update"
                   ELSE ctx[r].intent)
            /\ ctx[r].op \notin cfg.Supported =>
                  /\ ctx[r].pc = "done" /\ ctx[r].status = 405
                  /\ ctx[r].detail = "unsupported operation"
                  /\ Untouched(r)

\* A relationship append on a controller that supports only List and Find
\* was answered 405.
C17_Witness ==
    \E r \in Arrived :
        /\ ctx[r].intent = "append" /\ ctx[r].op = "update" /\ ctx[r].id = 1
        /\ cfg.Supported = {"list", "find"}
        /\ ctx[r].status = 405 /\ Untouched(r)

\* A relationship read on a controller that supports all but Find was
\* answered 405.
C17_ReadAsFind ==
    \E r \in Arrived :
        /\ ctx[r].intent = "get" /\ ctx[r].op = "find"
        /\ "find" \notin cfg.Supported /\ "update" \in cfg.Supported
        /\ ctx[r].status = 405 /\ Untouched(r)

\* The calls that read, make, lock or store a model, or call an action.
Accesses == {"load", "assign", "write", "respond", "sub", "action"}

\* All authorizers of the request have been called and returned nil before
\* the k-th call of its handler.
Authorized(r, k) ==
    \E i \in 1..(k - 1) :
        /\ ctx[r].trace[i].point = "authorizers"
        /\ ctx[r].trace[i].ok /\ ctx[r].trace[i].calls = NumCallbacks

C18_Denied ==
    \E r \in Arrived :
        /\ ctx[r].intent = "update" /\ ctx[r].id = 1 /\ ctx[r].pc = "done"
        /\ ctx[r].cb = ErrAccessDenied /\ ctx[r].status = 401
        /\ ctx[r].trace[Len(ctx[r].trace)].point = "authorizers"
        /\ ctx[r].trace[Len(ctx[r].trace)].calls = 2
        /\ ~ctx[r].started /\ ctx[r].model = NoDoc

\* The requests that a callback of one of the four lists ended with an error.
Refused == {r \in Arrived : ctx[r].cb # Nil /\ ctx[r].trace # <<>>
                             /\ ctx[r].trace[Len(ctx[r].trace)].point \in CallbackLists}

\* The status the claim gives each pipeline point.
Gate(r) ==
    LET point == ctx[r].trace[Len(ctx[r].trace)].point IN
    IF point = "authorizers" THEN 401 ELSE IF point = "validators" THEN 400 ELSE 500

C19_Opaque ==
    \E r \in Refused :
        /\ ctx[r].trace[Len(ctx[r].trace)].point = "notifiers"
        /\ ctx[r].cb = Errorf("model is not validatable")
        /\ ctx[r].status = 500 /\ ctx[r].detail = ""

\* A decorator returned ErrAccessDenied: 401 with the detail of the error.
C19_Denied ==
    \E r \in Refused :
        /\ ctx[r].trace[Len(ctx[r].trace)].point = "decorators"
        /\ ctx[r].cb = ErrAccessDenied
        /\ ctx[r].status = 401 /\ ctx[r].detail = "access denied"

\* The document of the request supplies an attribute or relationship key
\* that the model does not have or that no writable field of the request
\* carries.
Violating(r) ==
    \/ \E k \in ctx[r].doc.Attributes :
          \/ k \notin {"title", "create-token", "update-token"}
          \/ \A f \in ctx[r].writable : Fields[f].JSONKey # k
    \/ \E n \in ctx[r].doc.Relationships :
          \/ n \notin {"parent", "peers", "children", "mate"}
          \/ \A f \in ctx[r].writable : Fields[f].RelName # n

\* The request has come to the assignment of its document.
Assigning(r) ==
    \E i \in 1..Len(ctx[r].trace) : ctx[r].trace[i].point = "assign"

\* C20: without TolerateViolations a Create or Update whose document
\* supplies a key that is not writable or not known is rejected by the
\* assignment with 400: it runs no validator and no write, and nothing is
\* persisted.
C20_Violations ==
    \A r \in Arrived :
        (ctx[r].intent \in {"create", "update"} /\ ~cfg.TolerateViolations
           /\ Assigning(r) /\ Violating(r)) =>
            /\ ctx[r].pc = "done" /\ ctx[r].status = 400
            /\ ctx[r].trace[Len(ctx[r].trace)].point = "assign"
            /\ ~ctx[r].trace[Len(ctx[r].trace)].ok
            /\ ctx[r].writes = EmptyFn /\ store = Before

\* An Update supplied the title after an authorizer took it out of the
\* writable fields: 400, and the stored title is unchanged.
C20_Witness ==
    \E r \in Arrived :
        /\ ctx[r].intent = "update" /\ ctx[r].id = 1 /\ ~cfg.TolerateViolations
        /\ ctx[r].doc.Attributes = {"title"} /\ ctx[r].doc.Relationships = {}
        /\ "Title" \notin ctx[r].writable
        /\ ctx[r].status = 400 /\ ctx[r].detail = "attribute is not writable"
        /\ store = Before

\* A Create supplied a relationship the model does not have: 400.
C20_Unknown ==
    \E r \in Arrived :
        /\ ctx[r].intent = "create" /\ ~cfg.TolerateViolations
        /\ ctx[r].doc.Attributes = {"title"} /\ ctx[r].doc.Relationships = {"bogus"}
        /\ ctx[r].status = 400 /\ ctx[r].detail = "invalid relationship"
        /\ DOMAIN store = {1}

\* With TolerateViolations the same Update is answered 200 and the title is
\* left as it was.
C20_Tolerated ==
    \E r \in Arrived :
        /\ ctx[r].intent = "update" /\ ctx[r].id = 1 /\ cfg.TolerateViolations
        /\ ctx[r].doc.Attributes = {"title"} /\ "Title" \notin ctx[r].writable
        /\ ctx[r].pc = "done" /\ ctx[r].status = 200 /\ store[1].title = 1

\* ------------------------------------------------------ concurrent requests
\* Two clients send one request each; the requests pass their handlers step
\* by step, in any interleaving.
Clients == {1, 2}

\* What the two clients ask for: a Find, a Create, a Delete or a resource
\* action, without a sparse fieldset.
Asked == {"find", "create", "delete", "resource-action"}

\* One stored entity on a controller that supports every operation.
InitTransaction ==
    /\ cfg = [IdempotentCreate |-> FALSE, ConsistentUpdate |-> FALSE,
              SoftDelete |-> FALSE, ListLimit |-> 0, Supported |-> Operations,
              TolerateViolations |-> FALSE, Hidden |-> {}]
    /\ store = (1 :> [Make EXCEPT !.title = 1])
    /\ version = (1 :> 1)
    /\ clock = 1
    /\ ctx = [r \in Reqs |-> IdlePipe]
    /\ last = NoLast

NextTransaction ==
    \/ \E r \in Clients : Handle(r, Asked, {{}})
    \/ \E r \in Clients : CheckRequest(r)
    \/ \E r \in Clients : RunCallbacks(r)
    \/ \E r \in Clients : LoadModel(r)
    \/ \E r \in Clients : AssignData(r)
    \/ \E r \in Clients : Persist(r)
    \/ \E r \in Clients : ComposeResponse(r)
    \/ \E r \in Clients : RunAction(r)
    \/ \E r \in Clients : Commit(r)

SpecTransaction == InitTransaction /\ [][NextTransaction]_vars

C16_Committed ==
    \E r, q \in Clients :
        /\ ctx[r].intent = "create" /\ ctx[r].pc = "done" /\ ctx[r].status = 201
        /\ ctx[q].intent = "find" /\ ctx[q].id = ctx[r].id
        /\ ctx[q].pc = "done" /\ ctx[q].status = 200

\* A resource action has loaded the model and been called without a
\* transaction.
C16_Action ==
    \E r \in Clients :
        /\ ctx[r].intent = "resource-action" /\ ctx[r].pc = "done" /\ ctx[r].status = 200
        /\ ctx[r].model # NoDoc /\ ~ctx[r].tx /\ ~ctx[r].started
        /\ \A i \in 1..Len(ctx[r].trace) : ~ctx[r].trace[i].tx

\* --------------------------------------------------------------- pagination
\* Page numbers and page sizes a request may carry are 0..MaxPage, 0 standing
\* for a missing parameter.
MaxPage == 3

\* The pagination parameters of a request.
Pagings == [number : 0..MaxPage, size : 0..MaxPage]

\* The pagination parameters of a parsed request: the parser hands on a page
\* number and a page size together, or neither.
Parsed == {p \in Pagings : (p.number > 0) = (p.size > 0)}

\* No pagination parameters, or the first page of size one.
FirstPages == {p \in Parsed : p.number <= 1 /\ p.size <= 1}

\* Three entities as createResource stores them, on a controller with or
\* without a list limit.
InitList ==
    /\ cfg \in [IdempotentCreate : {FALSE}, ConsistentUpdate : {FALSE},
                SoftDelete : BOOLEAN, ListLimit : 0..(MaxPage - 1)]
    /\ store = [i \in Nodes \cup {Owner} |-> [Make EXCEPT !.title = 1]]
    /\ version = [i \in Nodes \cup {Owner} |-> 1]
    /\ clock = Owner
    /\ ctx = [r \in Reqs |-> IdleCtx]
    /\ last = NoLast

NextList ==
    \/ ListResources({{}}, Parsed)
    \/ FindResource({{}})
    \/ GetRelatedResources(FirstPages)
    \/ SetRelationship(Bodies(1), 1)
    \/ DeleteResource
    \/ Discard

SpecList == InitList /\ [][NextList]_vars

\* The entities a List matches: the stored ones, without the soft-deleted.
Matching == {i \in DOMAIN store : ~(cfg.SoftDelete /\ store[i].deleted)}

\* C12: a List answered with pagination links for page P of size S > 0 over
\* N matching entities has a last link to page ceil(N/S), the least L with
\* L * S >= N, a previous link (to P - 1) exactly when P > 1 and a next link
\* (to P + 1) exactly when P is before the last page, for every N including
\* 0; the page holds the entities at positions (P-1)*S+1 .. P*S.
C12_PageLinks ==
    (last.op = "list" /\ last.status = 200 /\ last.links.Self # NoPage) =>
        LET N == Cardinality(Matching)
            S == last.links.Size
            P == last.links.Self
            L == last.links.Last
            rest == IF N > (P - 1) * S THEN N - (P - 1) * S ELSE 0
        IN /\ S > 0 /\ P > 0
           /\ L >= 0 /\ L * S >= N /\ (L > 0 => (L - 1) * S < N)
           /\ last.links.First = 1
           /\ last.links.Previous = (IF P > 1 THEN P - 1 ELSE NoPage)
           /\ last.links.Next = (IF P < L THEN P + 1 ELSE NoPage)
           /\ Cardinality(DOMAIN last.data) = (IF rest > S THEN S ELSE rest)

\* The second page of size 2 over three entities: it is the last page, with a
\* previous and without a next link.
C12_Witness ==
    /\ last.op = "list" /\ last.status = 200
    /\ Cardinality(Matching) = 3
    /\ last.links.Self = 2 /\ last.links.Size = 2 /\ last.links.Last = 2
    /\ last.links.Previous = 1 /\ last.links.Next = NoPage
    /\ DOMAIN last.data = {Owner}

\* The entities whose inverse field "peers" holds the id, without the
\* soft-deleted: the documents a has-one "mate" of the id resolves to.
Mates(id) == {i \in Matching : Contains(store[i].peers, id)}

\* The request had to resolve the has-one relationship "mate" of an entity
\* that two or more documents refer to: the related resources of the entity,
\* the entity itself, or a list showing every entity.
Ambiguous ==
    \/ /\ last.op = "related" /\ last.rel = "mate"
       /\ last.id \in Matching /\ Cardinality(Mates(last.id)) > 1
    \/ /\ last.op = "find"
       /\ last.id \in Matching /\ Cardinality(Mates(last.id)) > 1
    \/ /\ last.op = "list" /\ last.links.Self = NoPage
       /\ \E i \in Matching : Cardinality(Mates(i)) > 1

\* C13: when two or more documents refer to an entity through the inverse of
\* a has-one relationship, every request that resolves the relationship ends
\* with an internal error (500) and never answers with one of them.
C13_HasOne == Ambiguous => last.status = 500

\* Find and an unpaginated List of such an entity end with the internal error.
C13_Resolved ==
    (Ambiguous /\ last.op \in {"find", "list"}) => last.status = 500

\* The related resources of an ambiguous has-one relationship answered with
\* a single one of the referring documents.
C13_Arbitrary ==
    /\ Ambiguous /\ last.op = "related"
    /\ last.status = 200 /\ Cardinality(DOMAIN last.data) = 1
    /\ Mates(last.id) = {2, Owner}

\* ------------------------------------------------------- tolerated violations
\* The document of the request supplies a key the model does not have.
Unknown(r) ==
    \/ ctx[r].doc.Attributes \ {"title", "create-token", "update-token"} # {}
    \/ ctx[r].doc.Relationships \ {"parent", "peers", "children", "mate"} # {}

\* The assignment of the request's document ended without error.
Assigned(r) ==
    \E i \in 1..Len(ctx[r].trace) : ctx[r].trace[i].point = "assign" /\ ctx[r].trace[i].ok

\* The value of the model's fields before the assignment: those of the
\* stored entity for an Update, the zero values for a Create.
Prior(r) == IF ctx[r].intent = "update" THEN Before[1] ELSE Make

\* C21 as claimed: with TolerateViolations every Create or Update whose
\* document supplies a key that is not writable or not known passes the
\* assignment without error.
C21_Original ==
    \A r \in Arrived :
        (ctx[r].intent \in {"create", "update"} /\ cfg.TolerateViolations
           /\ Assigning(r) /\ Violating(r)) => Assigned(r)

\* C21 (amended): with TolerateViolations a supplied key that the model has
\* but that is not writable (or names a has-one or has-many relationship) is
\* dropped: the assignment ends without error and the field keeps the value
\* it had, in the model and in what the request stores. A key the model does
\* not have still ends the request with 400 and nothing stored.
C21_Tolerated ==
    \A r \in Arrived :
        (ctx[r].intent \in {"create", "update"} /\ cfg.TolerateViolations
           /\ Assigning(r) /\ Violating(r)) =>
            IF Unknown(r)
            THEN /\ ctx[r].pc = "done" /\ ctx[r].status = 400
                 /\ ~Assigned(r) /\ store = Before
            ELSE /\ Assigned(r)
                 /\ ("title" \in ctx[r].doc.Attributes /\ "Title" \notin ctx[r].writable) =>
                       /\ ctx[r].model.title = Prior(r).title
                       /\ ctx[r].id \in DOMAIN store =>
                             store[ctx[r].id].title = Prior(r).title
                 /\ ("parent" \in ctx[r].doc.Relationships
                        /\ "Parent" \notin ctx[r].writable) =>
                       /\ ctx[r].model.parent = Prior(r).parent
                       /\ ctx[r].id \in DOMAIN store =>
                             store[ctx[r].id].parent = Prior(r).parent
                 /\ ("title" \in ctx[r].doc.Attributes /\ "Title" \in ctx[r].writable) =>
                       ctx[r].model.title = MaxTitle

\* An Update supplied a title that is not writable and a has-many
\* relationship: it was answered 200 and the stored title is the old one.
C21_Witness ==
    \E r \in Arrived :
        /\ ctx[r].intent = "update" /\ ctx[r].id = 1 /\ cfg.TolerateViolations
        /\ ctx[r].doc.Attributes = {"title"} /\ ctx[r].doc.Relationships = {"children"}
        /\ "Title" \notin ctx[r].writable
        /\ ctx[r].pc = "done" /\ ctx[r].status = 200
        /\ store[1].title = 1 /\ store[1].lk > 0

\* With TolerateViolations a Create supplying an attribute the model does not
\* have was answered 400.
C21_Rejected ==
    \E r \in Arrived :
        /\ ctx[r].intent = "create" /\ cfg.TolerateViolations
        /\ ctx[r].doc.Attributes = {"bogus"}
        /\ ctx[r].status = 400 /\ ctx[r].detail = "invalid attribute"

Arrive(r, Q) ==
    /\ ctx[r].pc = "idle"
    /\ \E q \in Q :
          ctx' = [ctx EXCEPT ![r] =
                     handle([IdlePipe EXCEPT !.intent = q.intent, !.id = q.id,
                                             !.rel = q.rel, !.refs = q.refs,
                                             !.doc = q.doc])]
    /\ UNCHANGED <<cfg, store, version, clock, last>>

\* The write requests on entity 1: an Update of its title, a set, append and
\* remove on its to-many relationship, and a Delete.
WriteRequests ==
    {[intent |-> "update", id |-> 1, rel |-> "", refs |-> <<>>,
      doc |-> [One |-> TRUE, ID |-> 1, Attributes |-> {"title"}, Relationships |-> {}]],
     [intent |-> "set", id |-> 1, rel |-> "peers", refs |-> <<1>>, doc |-> NoDocument],
     [intent |-> "append", id |-> 1, rel |-> "peers", refs |-> <<2>>, doc |-> NoDocument],
     [intent |-> "remove", id |-> 1, rel |-> "peers", refs |-> <<1>>, doc |-> NoDocument],
     [intent |-> "delete", id |-> 1, rel |-> "", refs |-> <<>>, doc |-> NoDocument]}

\* One stored entity on a controller with or without soft delete.
InitWrites ==
    /\ cfg \in [IdempotentCreate : {FALSE}, ConsistentUpdate : {FALSE},
                SoftDelete : BOOLEAN, ListLimit : {0}, Supported : {Operations},
                TolerateViolations : {FALSE}, Hidden : {{}}]
    /\ store = (1 :> [Make EXCEPT !.title = 1])
    /\ version = (1 :> 1)
    /\ clock = 1
    /\ ctx = [r \in Reqs |-> IdlePipe]
    /\ last = NoLast

\* Two clients send one write request each; the requests pass their
\* handlers step by step, in any interleaving.
NextWrites ==
    \/ \E r \in Clients : Arrive(r, WriteRequests)
    \/ \E r \in Clients : CheckRequest(r)
    \/ \E r \in Clients : RunCallbacks(r)
    \/ \E r \in Clients : LoadModel(r)
    \/ \E r \in Clients : CheckField(r)
    \/ \E r \in Clients : AssignData(r)
    \/ \E r \in Clients : Persist(r)
    \/ \E r \in Clients : ComposeResponse(r)
    \/ \E r \in Clients : Commit(r)

SpecWrites == InitWrites /\ [][NextWrites]_vars

\* The request served alone, in one piece, on the given documents: the
\* outcome of its handler.
Alone(view, c) ==
    CASE c.intent = "update" -> updateResource(view, c.id, MaxTitle, 0, 0)
      [] c.intent = "set" -> setRelationship(view, c.id, c.rel, c.refs)
      [] c.intent = "append" -> appendToRelationship(view, c.id, c.rel, c.refs)
      [] c.intent = "remove" -> removeFromRelationship(view, c.id, c.rel, c.refs)
      [] c.intent = "delete" -> deleteResource(view, c.id)

\* The documents after the first request and then the second were served
\* alone, both with success.
OneAfterTheOther(view, first, second) ==
    LET a == Alone(view, first)
        mid == View(view, a.writes)
        b == Alone(mid, second)
    IN [ok |-> a.status < 400 /\ b.status < 400, docs |-> View(mid, b.writes)]

\* The write requests that were answered with success.
Written == {r \in Clients : ctx[r].pc = "done" /\ ctx[r].status < 400}

C23_Conflict ==
    \E r, q \in Clients :
        /\ q \in Written /\ ctx[r].pc = "done" /\ ctx[r].status = 500
        /\ ctx[r].trace[Len(ctx[r].trace)].point = "load"
        /\ ctx[r].cb = Nil

\* C23, for Updates with or without consistent update: every successful
\* Update has incremented the lock counter of the version it replaced, so the
\* counter of the stored entity is the number of successful Updates.
C23_Counted ==
    \A i \in DOMAIN store :
        AllAnswered =>
            store[i].lk = Cardinality({r \in Updates : ctx[r].id = i /\ ctx[r].status = 200})

\* ------------------------------------------------------------------ actions
\* The points the request has passed, in order.
Points(r) == [i \in 1..Len(ctx[r].trace) |-> ctx[r].trace[i].point]

\* The requests for a collection or resource action.
ActionRequests == {r \in Arrived : ctx[r].intent \in {"collection-action", "resource-action"}}

\* C24: the handler of a collection or resource action is called only after
\* every authorizer has been called and has passed, for a resource action
\* also only after the addressed entity was loaded, and a request for an
\* action runs no validator, decorator or notifier.
C24_ActionAfterAuthorizers ==
    \A r \in ActionRequests :
        LET t == ctx[r].trace IN
        /\ \A k \in 1..Len(t) :
              /\ t[k].point \notin {"validators", "decorators", "notifiers"}
              /\ t[k].point = "action" =>
                    /\ \E i \in 1..(k - 1) :
                          /\ t[i].point = "authorizers" /\ t[i].ok
                          /\ t[i].calls = NumCallbacks
                    /\ ctx[r].action \in Actions
                    /\ ctx[r].intent = "resource-action" =>
                          /\ \E i \in 1..(k - 1) : t[i].point = "load" /\ t[i].ok
                          /\ ctx[r].model # NoDoc /\ ctx[r].model = store[ctx[r].id]
        /\ \A p \in {"validators", "decorators", "notifiers"} :
              \A i \in 1..Len(ctx[r].plan) : ctx[r].plan[i] # p

\* A collection action was called after both authorizers and the request
\* ended without any other callback.
C24_Witness ==
    \E r \in ActionRequests :
        /\ ctx[r].intent = "collection-action" /\ ctx[r].pc = "done"
        /\ ctx[r].status = 200
        /\ Points(r) = <<"check", "authorizers", "action">>
        /\ ctx[r].trace[2].calls = NumCallbacks

\* A resource action on an entity that is not stored ended at the load and
\* its handler was not called.
C24_NotLoaded ==
    \E r \in ActionRequests :
        /\ ctx[r].intent = "resource-action" /\ ctx[r].id = 2 /\ ctx[r].pc = "done"
        /\ ctx[r].status = 404 /\ Points(r) = <<"check", "authorizers", "load">>

\* The requests that name a relationship the model does not have.
NoSuchRelationship ==
    {r \in Arrived : /\ ctx[r].intent \in {"related", "get", "set", "append", "remove"}
                     /\ ctx[r].rel \notin DOMAIN Relationships
                     /\ ctx[r].id \in Nodes /\ ctx[r].op \in cfg.Supported
                     /\ ~UnknownField(r)}

\* The requests that name an action the controller does not define.
NoSuchAction ==
    {r \in ActionRequests : /\ ctx[r].action \notin Actions
                            /\ ctx[r].id \in Nodes \cup {NoID}
                            /\ ctx[r].op \in cfg.Supported
                            /\ ~UnknownField(r)}

C25_Action ==
    \E r \in NoSuchAction :
        /\ ctx[r].intent = "resource-action" /\ ctx[r].id = 1 /\ ctx[r].pc = "done"
        /\ ctx[r].status = 500

\* ------------------------------------- partial updates and consistent update
\* One stored entity with an update token on a controller with consistent
\* update.
InitConsistent ==
    /\ cfg = [IdempotentCreate |-> FALSE, ConsistentUpdate |-> TRUE, SoftDelete |-> FALSE,
              ListLimit |-> 0]
    /\ store = (1 :> [Make EXCEPT !.title = 1, !.upd = 2])
    /\ version = (1 :> 1)
    /\ clock = 2
    /\ ctx = [r \in Reqs |-> IdleCtx]
    /\ last = NoLast

\* Updates, relationship writes and Deletes, served in turn.
NextConsistent ==
    \/ UpdateResource
    \/ SetRelationship(Bodies(MaxRefs), MaxWrites)
    \/ AppendToRelationship(Bodies(MaxRefs), MaxWrites)
    \/ RemoveFromRelationship(Bodies(MaxRefs), MaxWrites)
    \/ DeleteResource
    \/ Discard

SpecConsistent == InitConsistent /\ [][NextConsistent]_vars

\* The relationship writes.
Partial == {"set", "append", "remove"}

\* C26 as stated: with consistent update every relationship set, append and
\* remove is rejected with 409.
C26_Original ==
    (cfg.ConsistentUpdate /\ last.op \in Partial) => last.status = 409

\* C26: with consistent update every relationship set, append and remove is
\* rejected with 405 whatever entity, relationship and references it names,
\* and leaves the stored documents as they are; a stored entity that stays
\* stored changes only by an Update answered 200, which replaces its token.
C26_PartialRefused ==
    /\ []((cfg.ConsistentUpdate /\ last.op \in Partial) => last.status = 405)
    /\ [][/\ last'.op \in Partial => store' = store
          /\ \A i \in DOMAIN store \cap DOMAIN store' :
                store'[i] # store[i] =>
                   /\ last'.op = "update" /\ last'.status = 200 /\ last'.id = i
                   /\ store'[i].upd # store[i].upd
                   /\ store'[i].parent = store[i].parent
                   /\ store'[i].peers = store[i].peers]_vars

\* An append to the to-many relationship of the stored entity was refused
\* with 405 and the entity is as it was.
C26_Witness ==
    /\ cfg.ConsistentUpdate
    /\ last.op = "append" /\ last.id = 1 /\ last.rel = "peers" /\ last.refs = <<2>>
    /\ last.status = 405
    /\ store = (1 :> [Make EXCEPT !.title = 1, !.upd = 2])

\* A set naming an unknown relationship of an entity that is not stored was
\* refused with 405, not 400 or 404: the refusal comes first.
C26_First ==
    /\ last.op = "set" /\ last.id = 2 /\ last.rel = "bogus" /\ last.status = 405

\* An Update carrying the stored token changed the entity and its token.
C26_Update ==
    /\ last.op = "update" /\ last.status = 200 /\ last.id = 1
    /\ 1 \in DOMAIN store /\ store[1].upd = 3 /\ store[1].title = MaxTitle

\* ------------------------------------ idempotent create token after Create
\* A controller with idempotent create, with or without soft delete, and
\* nothing stored yet.
InitIdempotent ==
    /\ cfg \in [IdempotentCreate : {TRUE}, ConsistentUpdate : {FALSE},
                SoftDelete : BOOLEAN, ListLimit : {0}]
    /\ store = EmptyFn
    /\ version = EmptyFn
    /\ clock = 0
    /\ ctx = [r \in Reqs |-> IdleCtx]
    /\ last = NoLast

\* Two clients send a Create carrying a token each; Updates and Deletes are
\* served in turn.
NextIdempotent ==
    \/ \E r \in Clients : CreateResource(r)
    \/ \E r \in Clients : Commit(r)
    \/ UpdateResource
    \/ DeleteResource
    \/ Discard

SpecIdempotent == InitIdempotent /\ [][NextIdempotent]_vars

\* C27: with idempotent create, an Update whose document carries another
\* idempotent create token than the stored one is rejected with 400 and
\* writes nothing, and the token stored for an entity is the same after
\* every step as before it: a successful Update stores the token it found.
C27_TokenKept ==
    /\ [](cfg.IdempotentCreate =>
            \A id \in DOMAIN store, title \in Titles, create \in 0..MaxToken :
                LET out == updateResource(store, id, title, 0, create) IN
                /\ (create \notin {0, store[id].token} /\ out.status \notin {404, 500}) =>
                      (out.status = 400 /\ out.writes = EmptyFn)
                /\ out.status = 200 =>
                      /\ create \in {0, store[id].token}
                      /\ out.writes[id].token = store[id].token)
    /\ [][\A i \in DOMAIN store \cap DOMAIN store' :
              /\ store'[i].token = store[i].token
              /\ store[i].token \in 1..MaxToken]_vars

\* An Update of a stored entity was answered 200 and the entity has its new
\* title and the token of its Create.
C27_Witness ==
    \E r \in Reqs :
        /\ ctx[r].op = "create" /\ ctx[r].status = 201 /\ ctx[r].title = MaxTitle
        /\ last.op = "update" /\ last.status = 200 /\ last.id = ctx[r].id
        /\ ctx[r].id \in DOMAIN store
        /\ store[ctx[r].id].token = ctx[r].tok
        /\ store[ctx[r].id].title # MaxTitle

\* An Update of a stored entity was answered 400: its document carried
\* another token.
C27_Rejected ==
    /\ last.op = "update" /\ last.status = 400 /\ last.id \in DOMAIN store
    /\ ~store[last.id].deleted /\ store[last.id].lk = 0

\* The Creates whose conditional insert met a soft-deleted entity with
\* their token.
Repeats ==
    {r \in Reqs : /\ ctx[r].op = "create" /\ ctx[r].tok # 0
                  /\ \E i \in DOMAIN ctx[r].snap :
                        ctx[r].snap[i].token = ctx[r].tok /\ ctx[r].snap[i].deleted}

\* C29: with idempotent create and soft delete, a Create that repeats the
\* token of an entity that has been soft-deleted is answered 409 and
\* persists nothing: its id is never stored.
C29_RepeatAfterSoftDelete ==
    (cfg.IdempotentCreate /\ cfg.SoftDelete) =>
        \A r \in Repeats :
            /\ ctx[r].pc = "done" /\ ctx[r].status = 409
            /\ ctx[r].writes = EmptyFn /\ ctx[r].id \notin DOMAIN store

\* The entity created with a token was soft-deleted and the only other
\* Create with the token was answered 409: one entity has the token.
C29_Witness ==
    \E r \in Repeats, q \in Reqs :
        /\ cfg.SoftDelete /\ ctx[r].status = 409
        /\ ctx[q].op = "create" /\ ctx[q].status = 201 /\ ctx[q].tok = ctx[r].tok
        /\ store[ctx[q].id].deleted
        /\ EntitiesWith(ctx[r].tok) = {ctx[q].id}

\* ------------------------------------------------ filters added by authorizers
\* One stored entity on a controller whose authorizers add no filter, or a
\* filter that excludes the entity; entity 2 is not stored.
InitFilter ==
    /\ cfg \in [IdempotentCreate : {FALSE}, ConsistentUpdate : {FALSE},
                SoftDelete : {FALSE}, ListLimit : {0}, Supported : {Operations},
                TolerateViolations : {FALSE}, Hidden : {{}, {1}}]
    /\ store = (1 :> [Make EXCEPT !.title = 1])
    /\ version = (1 :> 1)
    /\ clock = 1
    /\ ctx = [r \in Reqs |-> IdlePipe]
    /\ last = NoLast

SpecFilter == InitFilter /\ [][NextPipeline]_vars

\* The requests on an entity that was not stored when they arrived, or was
\* stored and is excluded by the filter of the authorizers.
Absent ==
    {r \in Arrived : /\ ctx[r].intent \notin {"list", "create", "collection-action"}
                     /\ ctx[r].id \in Nodes
                     /\ ctx[r].id \notin DOMAIN Query(Before, cfg.Hidden)}

\* The answer to a request that went on to load its entity and did not find
\* it: 404 "resource not found", no resource, no linkage.
Missing(r) ==
    /\ ctx[r].status = 404 /\ ctx[r].detail = "resource not found"
    /\ ctx[r].trace[Len(ctx[r].trace)].point = "load"
    /\ ~ctx[r].trace[Len(ctx[r].trace)].ok
    /\ ctx[r].data = EmptyFn /\ ctx[r].linkage = <<>>

\* C28: a Find, Update, Delete, relationship request or resource action on
\* an entity that is stored but excluded by a filter an authorizer added
\* gets what the same request on an id that is not stored gets: nothing of
\* the entity is read, locked or written, a request that reaches the load is
\* answered 404 "resource not found", and any other ends at a check or an
\* authorizer that precedes the load. A List omits the excluded entity.
C28_FilteredIsMissing ==
    /\ \A r \in Absent :
          /\ ctx[r].model = NoDoc /\ ctx[r].writes = EmptyFn /\ store = Before
          /\ \A k \in 1..Len(ctx[r].trace) :
                ctx[r].trace[k].point \in {"check", "authorizers", "load"}
          /\ ctx[r].pc = "done" =>
                /\ ctx[r].status >= 400
                /\ (ctx[r].trace # <<>> /\ ctx[r].trace[Len(ctx[r].trace)].point = "load")
                      => Missing(r)
                /\ ctx[r].status = 404 => Missing(r)
          /\ (ctx[r].trace # <<>> /\ ctx[r].trace[Len(ctx[r].trace)].point = "load")
                => ctx[r].pc = "done"
    /\ \A r \in Arrived :
          ctx[r].intent = "list" =>
             /\ ctx[r].models \cap cfg.Hidden = {}
             /\ DOMAIN ctx[r].data \cap cfg.Hidden = {}

\* An Update of the stored entity that the filter excludes was answered 404
\* at the load, and the entity is as it was, without a lock.
C28_Witness ==
    \E r \in Absent :
        /\ cfg.Hidden = {1} /\ ctx[r].id = 1 /\ 1 \in DOMAIN store
        /\ ctx[r].intent = "update" /\ ctx[r].pc = "done" /\ Missing(r)
        /\ store[1].lk = 0

\* The same Update on the id that is not stored was answered the same.
C28_NotStored ==
    \E r \in Absent :
        /\ cfg.Hidden = {} /\ ctx[r].id = 2
        /\ ctx[r].intent = "update" /\ ctx[r].pc = "done" /\ Missing(r)

\* A List was answered 200 without the stored entity.
C28_Omitted ==
    \E r \in Arrived :
        /\ ctx[r].intent = "list" /\ ctx[r].pc = "done" /\ ctx[r].status = 200
        /\ ctx[r].data = EmptyFn /\ 1 \in DOMAIN store

\* Without the filter the entity is found and listed.
C28_Found ==
    \E r \in Arrived :
        /\ cfg.Hidden = {} /\ ctx[r].intent = "find" /\ ctx[r].id = 1
        /\ ctx[r].pc = "done" /\ ctx[r].status = 200 /\ DOMAIN ctx[r].data = {1}

\* ------------------------------------------------------ the lock of loadModel
\* One request of any kind on a controller with or without soft delete.
SpecLock == InitWrites /\ [][NextPipeline]_vars

\* The requests that have loaded their entity with loadModel.
Loaded == {r \in Arrived : ctx[r].intent \notin {"list", "create"} /\ ctx[r].model # NoDoc}

\* loadModel has loaded the entity of the request with the lock: the loaded
\* model carries the incremented lock counter.
Locked(r) == ctx[r].model.lk = Before[ctx[r].id].lk + 1

\* C30 as stated: the entity is loaded with the lock for an Update, and for
\* a Delete only when soft delete is off; a Delete with soft delete and the
\* reads load it without the lock.
C30_Original ==
    \A r \in Loaded :
        Locked(r) <=> \/ ctx[r].op = "update"
                      \/ (ctx[r].op = "delete" /\ ~cfg.SoftDelete)

\* C30: loadModel loads the entity with the lock exactly when the operation
\* is an Update (a relationship set, append or remove included) or a Delete,
\* with soft delete as without it; a Find, a relationship read and a
\* resource action load it without the lock and write nothing.
C30_LockOnWrite ==
    \A r \in Loaded :
        /\ Locked(r) <=> ctx[r].op \in {"update", "delete"}
        /\ ~Locked(r) => (ctx[r].model = Before[ctx[r].id] /\ ctx[r].writes = EmptyFn
                            /\ store = Before)

\* A Delete on a controller with soft delete loaded the entity with the
\* lock and the stored entity has the delete mark and the lock counter.
C30_Witness ==
    \E r \in Loaded :
        /\ cfg.SoftDelete /\ ctx[r].intent = "delete" /\ ctx[r].pc = "done"
        /\ ctx[r].status = 204 /\ Locked(r)
        /\ store[1].deleted /\ store[1].lk = 1

\* A Find loaded the entity without the lock.
C30_Read ==
    \E r \in Loaded :
        /\ ctx[r].intent = "find" /\ ctx[r].pc = "done" /\ ctx[r].status = 200
        /\ ~Locked(r) /\ store[1].lk = 0

\* ------------------------------------------------- a List among other writes
\* The context of a request that lists: the context of a request with the
\* pagination parameters, the ids of the loaded page, the links of the
\* response, and the versions of the collection when the links were made.
IdleList ==
    [pc |-> "idle", op |-> "none", id |-> 0, tok |-> 0, title |-> 0,
     model |-> NoDoc, storedTok |-> 0, newTok |-> 0,
     snap |-> EmptyFn, snapVer |-> EmptyFn, writes |-> EmptyFn,
     pending |-> 0, status |-> 0,
     page |-> NoPaging, models |-> {}, links |-> NoLinks, linkVer |-> EmptyFn]

\* A count taken on the collection as it is, not on the transaction.
Counted_Live(c) == store

\* The documents the transaction of the request reads: those of the snapshot
\* it took with its first storage call, and its own writes.
Counted(c) == View(c.snap, c.writes)

\* Controller.listResources up to loadModels: the transaction takes its
\* snapshot with FindAll, which loads the page.
ListLoad(r) ==
    /\ ctx[r].pc = "idle"
    /\ \E paging \in Parsed :
          LET page == Restrain(paging)
              c == [ctx[r] EXCEPT !.op = "list", !.page = page,
                                  !.snap = store, !.snapVer = version]
              matching == loadModels(Counted(c), DOMAIN Counted(c))
          IN ctx' = [ctx EXCEPT ![r] =
                        [c EXCEPT !.pc = "loaded", !.models = FindAll(matching, page)]]
    /\ UNCHANGED <<cfg, store, version, clock, last>>

\* Controller.listResources from the decorators to the response: listLinks
\* counts the matching documents and makes the links.
ListLinks(r) ==
    /\ ctx[r].pc = "loaded"
    /\ ctx[r].op = "list"
    /\ LET c == ctx[r]
           read == Counted(c)
           count == Cardinality(loadModels(read, DOMAIN read))
       IN ctx' = [ctx EXCEPT ![r] =
                     [c EXCEPT !.pc = "commit", !.pending = 200,
                               !.links = listLinks(count, c.page),
                               !.linkVer = version]]
    /\ UNCHANGED <<cfg, store, version, clock, last>>

\* Two stored entities; every request is still to arrive.
InitPage ==
    /\ cfg = [IdempotentCreate |-> FALSE, ConsistentUpdate |-> FALSE, SoftDelete |-> FALSE,
              ListLimit |-> 0]
    /\ store = [i \in Nodes |-> [Make EXCEPT !.title = 1]]
    /\ version = [i \in Nodes |-> 1]
    /\ clock = Cardinality(Nodes)
    /\ ctx = [r \in Reqs |-> IdleList]
    /\ last = NoLast

\* Each of two clients sends a List or a Create, which run step by step in
\* any interleaving, while Deletes are served in between.
NextPage ==
    \/ \E r \in Clients : ListLoad(r)
    \/ \E r \in Clients : ListLinks(r)
    \/ \E r \in Clients : CreateResource(r)
    \/ \E r \in Clients : Commit(r)
    \/ DeleteResource
    \/ Discard

SpecPage == InitPage /\ [][NextPage]_vars

\* The Lists that have made their links for a page.
Paged ==
    {r \in Clients : /\ ctx[r].op = "list" /\ ctx[r].pc \in {"commit", "done"}
                     /\ ctx[r].page.number > 0 /\ ctx[r].page.size > 0}

\* C31: the page and the links of a paginated List come from one state of
\* the collection, whatever Creates and Deletes commit while it runs: the
\* last-page link is ceil(N/S) for the N entities of the snapshot the page
\* was taken from, a page before the last is full, the last page holds the
\* remainder, and a page behind the last is empty.
C31_PointInTime ==
    \A r \in Paged :
        LET c == ctx[r]
            N == Cardinality(loadModels(c.snap, DOMAIN c.snap))
            S == c.page.size
            held == Cardinality(c.models)
        IN /\ c.links.Last = Ceil(N, S)
           /\ c.models \subseteq DOMAIN c.snap
           /\ c.page.number < c.links.Last => held = S
           /\ c.page.number = c.links.Last => held = N - (c.links.Last - 1) * S
           /\ c.page.number > c.links.Last => held = 0

\* A Create or Delete committed between the load of the page and the count
\* of a List, and the links of the List still fit its page and not the
\* collection as it is now.
C31_Witness ==
    \E r \in Paged :
        /\ ctx[r].pc = "done" /\ ctx[r].status = 200
        /\ ctx[r].linkVer # ctx[r].snapVer
        /\ ctx[r].links.Last # Ceil(Cardinality(DOMAIN store), ctx[r].page.size)
        /\ ctx[r].page.number = ctx[r].links.Last

\* ------------------------------------------ Manager calls and transactions
\* Manager.Replace and ReplaceFirst, "increment lock manually": the amount
\* added to the lock counter of the model.
LockStep == 1000

\* The methods of the Manager that always require a transaction.
RequiresTransaction ==
    {"FindAll", "FindEach", "Count", "InsertIfMissing", "Upsert"}

\* The methods of the Manager that take a lock argument.
Lockable ==
    {"Find", "FindFirst", "FindAll", "FindEach", "Count", "Replace", "ReplaceFirst",
     "Update", "UpdateFirst", "UpdateAll"}

\* The methods of the Manager.
Methods == Lockable \cup RequiresTransaction \cup {"Insert", "Delete"}

\* The errors of a Manager call; NoError stands for nil.
NoError == "nil"
ErrTransactionRequired == "operation requires a transaction"
ErrZeroID == "model has a zero id"
ErrLockPaged == "cannot lock with skip and limit"

\* The calls of the Manager: the method, whether the context carries a
\* transaction, the lock argument, the id of the document or model (0 is the
\* zero id), and whether skip or limit is set.
ManagerCalls ==
    {c \in [op : Methods, tx : BOOLEAN, lock : BOOLEAN, id : {0} \cup Nodes,
            paged : BOOLEAN] :
        /\ c.lock => c.op \in Lockable
        /\ c.paged => c.op \in {"FindAll", "FindEach", "Count"}
        /\ c.op \in {"FindAll", "FindEach", "Count", "UpdateAll"} => c.id = 0}

\* A Manager that runs every call whether or not there is a transaction.
Check_None(c) ==
    IF c.op = "Replace" /\ c.id = 0 THEN ErrZeroID
    ELSE IF c.op \in {"FindAll", "FindEach", "Count"} /\ c.lock /\ c.paged THEN ErrLockPaged
    ELSE NoError

\* The checks at the top of the methods, in the order of the code: Replace
\* checks the id of the model first, the methods that always require a
\* transaction check for it first and then for a lock with skip or limit,
\* every method with a lock argument requires a transaction for the lock.
Check(c) ==
    IF c.op = "Replace" /\ c.id = 0 THEN ErrZeroID
    ELSE IF c.op \in RequiresTransaction /\ ~c.tx THEN ErrTransactionRequired
    ELSE IF c.op \in {"FindAll", "FindEach", "Count"} /\ c.lock /\ c.paged THEN ErrLockPaged
    ELSE IF c.lock /\ ~c.tx THEN ErrTransactionRequired
    ELSE NoError

\* The documents a call addresses: the one with the id, or all of them for
\* the methods that take a query for many.
Addressed(docs, c) ==
    IF c.op \in {"FindAll", "FindEach", "Count", "UpdateAll"} THEN DOMAIN docs
    ELSE DOMAIN docs \cap {c.id}

\* The documents after a call that has passed the checks: a lock increments
\* the lock counter of the addressed documents (Replace and ReplaceFirst
\* store the model with the counter raised by LockStep), Insert and the
\* upserts store the model under its id or a new one unless a document is
\* matched, Replace and Update write the addressed document, Delete removes
\* it.
Effect(docs, c, fresh) ==
    LET hit == Addressed(docs, c)
        step == IF c.op \in {"Replace", "ReplaceFirst"} THEN LockStep ELSE 1
        locked == [i \in DOMAIN docs |->
                      IF i \in hit /\ c.lock THEN [docs[i] EXCEPT !.lk = @ + step]
                      ELSE docs[i]]
        id == IF c.id = 0 THEN fresh ELSE c.id
    IN CASE c.op \in {"Find", "FindFirst", "FindAll", "FindEach", "Count"} -> locked
         [] c.op \in {"Insert", "InsertIfMissing", "Upsert"} ->
               IF id \in DOMAIN docs THEN docs ELSE (id :> [Make EXCEPT !.title = 1]) @@ docs
         [] c.op \in {"Replace", "ReplaceFirst", "Update", "UpdateFirst", "UpdateAll"} ->
               [i \in DOMAIN docs |->
                   IF i \in hit THEN [locked[i] EXCEPT !.title = MaxTitle] ELSE docs[i]]
         [] c.op = "Delete" -> [i \in DOMAIN docs \ hit |-> docs[i]]

\* A call of a method of the Manager: the checks, and the effect when they
\* pass. The call and its error are recorded.
Invoke ==
    /\ clock < MaxWrites
    /\ \E c \in ManagerCalls :
          LET err == Check(c) IN
          /\ store' = IF err = NoError THEN Effect(store, c, Owner) ELSE store
          /\ last' = [call |-> c, err |-> err]
    /\ clock' = clock + 1
    /\ UNCHANGED <<cfg, version, ctx>>

\* One stored document; no call has been made.
InitManager ==
    /\ cfg = [IdempotentCreate |-> FALSE, ConsistentUpdate |-> FALSE, SoftDelete |-> FALSE,
              ListLimit |-> 0]
    /\ store = (1 :> [Make EXCEPT !.title = 1])
    /\ version = (1 :> 1)
    /\ clock = 0
    /\ ctx = [r \in Reqs |-> IdleCtx]
    /\ last = [call |-> [op |-> "none", tx |-> FALSE, lock |-> FALSE, id |-> 0,
                         paged |-> FALSE],
               err |-> NoError]

SpecManager == InitManager /\ [][Invoke]_vars

\* The call needs isolation: its method always requires a transaction, or it
\* was called with the lock.
Isolated(c) == c.op \in RequiresTransaction \/ c.lock

\* C32 as stated: a call that needs isolation and is made outside a
\* transaction fails with ErrTransactionRequired.
C32_Original ==
    (Isolated(last.call) /\ ~last.call.tx) => last.err = ErrTransactionRequired

\* C32: a call that needs isolation and is made outside a transaction fails
\* and touches no document; the error is ErrTransactionRequired, except for
\* a Replace of a model with a zero id, which fails with the zero-id error
\* before the transaction is looked for. No call outside a transaction
\* changes a lock counter.
C32_TransactionRequired ==
    [][/\ (Isolated(last'.call) /\ ~last'.call.tx) =>
             /\ store' = store
             /\ last'.err = IF last'.call.op = "Replace" /\ last'.call.id = 0
                            THEN ErrZeroID ELSE ErrTransactionRequired
       /\ ~last'.call.tx =>
             \A i \in DOMAIN store \cap DOMAIN store' : store'[i].lk = store[i].lk]_vars

\* A FindFirst with the lock was refused outside a transaction after an
\* Update without the lock had been made there: the document has the update
\* and its lock counter is 0.
C32_Witness ==
    /\ last.call.op = "FindFirst" /\ last.call.lock /\ ~last.call.tx /\ last.call.id = 1
    /\ last.err = ErrTransactionRequired
    /\ 1 \in DOMAIN store /\ store[1].title = MaxTitle /\ store[1].lk = 0

\* A Replace of a model with a zero id, with the lock, outside a
\* transaction, failed with the zero-id error.
C32_ZeroID ==
    /\ last.call.op = "Replace" /\ last.call.lock /\ ~last.call.tx /\ last.call.id = 0
    /\ last.err = ErrZeroID

\* Inside a transaction a Find with the lock incremented the lock counter.
C32_Locked ==
    /\ last.call.op = "Find" /\ last.call.lock /\ last.call.tx /\ last.err = NoError
    /\ 1 \in DOMAIN store /\ store[1].lk > 0

\* ------------------------------------------------------------ glut locks
\* The latest time of the clock.
MaxTime == 3

\* The lock timeouts a caller passes.
Timeouts == {1, 2}

\* The one value (component, name) the callers contend for; the collection
\* holds at most one document for it.
Name == 1

\* The contents a value can hold.
Contents == {0, 1}

\* A caller of Lock between its calls: pc is "lock" between the two updates
\* of Lock, locked the lock time it computed at its start, held the lock
\* time of the lock it was last told it has (0 for none).
IdleLocker == [pc |-> "idle", locked |-> 0, held |-> 0]

\* No call has returned yet; bit is flipped by every call that returns.
NoCall == [op |-> "none", token |-> 0, ok |-> FALSE, data |-> 0, bit |-> 0]

\* The call that has returned.
Returned(op, token, ok, data) ==
    [op |-> op, token |-> token, ok |-> ok, data |-> data, bit |-> 1 - last.bit]

\* A lock condition that holds for any value.
Vacant_Any(v, token) == TRUE

\* Lock, the filter of "lock value": the value is unlocked, its lock has
\* timed out, or the token has the lock.
Vacant(v, token) ==
    \/ v.Token = 0
    \/ (v.Locked # 0 /\ v.Locked < clock)
    \/ v.Token = token

\* A filter that takes the token alone.
Valid_Token(v, token) == v.Token = token

\* The filter of SetLocked, GetLocked, DelLocked and Unlock: the value has
\* the token and its lock time is after now.
Valid(v, token) == v.Token = token /\ v.Locked > clock

\* Lock, "ensure value": the upsert inserts the value locked by the token if
\* there is none, and Lock returns true; otherwise Lock goes on.
LockEnsure(t) ==
    /\ ctx[t].pc = "idle"
    /\ \E timeout \in Timeouts :
          LET locked == clock + timeout IN
          IF Name \notin DOMAIN store
          THEN /\ store' = (Name :> [Token |-> t, Locked |-> locked, Data |-> 0])
               /\ ctx' = [ctx EXCEPT ![t].held = locked]
               /\ last' = Returned("Lock", t, TRUE, 0)
          ELSE /\ ctx' = [ctx EXCEPT ![t].pc = "lock", ![t].locked = locked]
               /\ UNCHANGED <<store, last>>
    /\ UNCHANGED <<cfg, version, clock>>

\* Lock, "lock value": the update sets lock time and token if the filter
\* matches, and Lock returns whether the document was modified. An update
\* that sets what is stored modifies nothing.
LockValue(t) ==
    /\ ctx[t].pc = "lock"
    /\ LET matched == Name \in DOMAIN store /\ Vacant(store[Name], t)
           new == [store[Name] EXCEPT !.Locked = ctx[t].locked, !.Token = t]
           modified == matched /\ new # store[Name]
       IN /\ store' = IF modified THEN (Name :> new) ELSE store
          /\ ctx' = [ctx EXCEPT ![t].pc = "idle",
                                ![t].held = IF modified THEN ctx[t].locked ELSE @]
          /\ last' = Returned("Lock", t, modified, 0)
    /\ UNCHANGED <<cfg, version, clock>>

\* SetLocked: the data is set if the filter matches; returns whether the
\* document was modified.
SetLocked(t) ==
    /\ ctx[t].pc = "idle"
    /\ \E data \in Contents :
          LET matched == Name \in DOMAIN store /\ Valid(store[Name], t)
              modified == matched /\ store[Name].Data # data
          IN /\ store' = IF modified THEN (Name :> [store[Name] EXCEPT !.Data = data])
                         ELSE store
             /\ last' = Returned("SetLocked", t, modified, data)
    /\ UNCHANGED <<cfg, version, clock, ctx>>

\* GetLocked: returns the data and true if the filter matches.
GetLocked(t) ==
    /\ ctx[t].pc = "idle"
    /\ LET matched == Name \in DOMAIN store /\ Valid(store[Name], t) IN
       last' = Returned("GetLocked", t, matched, IF matched THEN store[Name].Data ELSE 0)
    /\ UNCHANGED <<cfg, store, version, clock, ctx>>

\* DelLocked: the value is deleted if the filter matches.
DelLocked(t) ==
    /\ ctx[t].pc = "idle"
    /\ LET matched == Name \in DOMAIN store /\ Valid(store[Name], t) IN
       /\ store' = IF matched THEN EmptyFn ELSE store
       /\ ctx' = [ctx EXCEPT ![t].held = IF matched THEN 0 ELSE @]
       /\ last' = Returned("DelLocked", t, matched, 0)
    /\ UNCHANGED <<cfg, version, clock>>

\* Unlock: lock time and token are set to nil if the filter matches.
Unlock(t) ==
    /\ ctx[t].pc = "idle"
    /\ LET matched == Name \in DOMAIN store /\ Valid(store[Name], t) IN
       /\ store' = IF matched
                    THEN (Name :> [store[Name] EXCEPT !.Locked = 0, !.Token = 0])
                    ELSE store
       /\ ctx' = [ctx EXCEPT ![t].held = IF matched THEN 0 ELSE @]
       /\ last' = Returned("Unlock", t, matched, 0)
    /\ UNCHANGED <<cfg, version, clock>>

\* time.Now advances.
Tick ==
    /\ clock < MaxTime
    /\ clock' = clock + 1
    /\ UNCHANGED <<cfg, store, version, ctx, last>>

\* No value is stored; the clock is at its start.
InitLocks ==
    /\ cfg = [IdempotentCreate |-> FALSE, ConsistentUpdate |-> FALSE, SoftDelete |-> FALSE,
              ListLimit |-> 0]
    /\ store = EmptyFn
    /\ version = EmptyFn
    /\ clock = 0
    /\ ctx = [t \in Clients |-> IdleLocker]
    /\ last = NoCall

\* Two callers with a token each call the functions in any interleaving.
NextLocks ==
    \/ \E t \in Clients : LockEnsure(t)
    \/ \E t \in Clients : LockValue(t)
    \/ \E t \in Clients : SetLocked(t)
    \/ \E t \in Clients : GetLocked(t)
    \/ \E t \in Clients : DelLocked(t)
    \/ \E t \in Clients : Unlock(t)
    \/ Tick

SpecLocks == InitLocks /\ [][NextLocks]_vars

\* The token was told it has the lock, and the lock time it was given has
\* not passed.
Holds(t) == ctx[t].held > clock

Returns34 ==
    /\ last'.bit # last.bit
    /\ last'.op \in {"SetLocked", "GetLocked", "DelLocked", "Unlock"}

\* C34: SetLocked, GetLocked, DelLocked and Unlock return true, and change
\* the value, only if the value has the token and its lock time has not
\* passed; for another token, a lock that has timed out, an unlocked or a
\* missing value they return false and the value stays as it is.
C34_OnlyHolder ==
    [][Returns34 =>
          LET held == Name \in DOMAIN store /\ store[Name].Token = last'.token
                         /\ store[Name].Locked > clock
          IN /\ last'.ok => held
             /\ ~held => (~last'.ok /\ store' = store)
             /\ (~held /\ last'.op = "GetLocked") => last'.data = 0
             /\ store' # store => last'.ok]_vars

\* The lock of a token timed out and the other token took the value over;
\* the former holder called SetLocked and was told false.
C34_Witness ==
    \E a, b \in Clients :
        /\ a # b /\ ctx[a].held # 0 /\ ctx[a].held < clock /\ Holds(b)
        /\ last.op = "SetLocked" /\ last.token = a /\ ~last.ok /\ last.data = 1
        /\ store[Name].Token = b /\ store[Name].Data = 0

\* The holder set the data of the value it has locked.
C34_Set ==
    \E a \in Clients :
        /\ Holds(a) /\ last.op = "SetLocked" /\ last.token = a /\ last.ok
        /\ store[Name].Data = 1

\* C35 as stated: a Lock call that reaches its update when the value is
\* unlocked, or its lock has timed out, or the caller has the lock, returns
\* true and the value then carries the caller's token and lock time.
C35_NeverBlocks ==
    [][(last'.bit # last.bit /\ last'.op = "Lock" /\ Name \in DOMAIN store) =>
          LET v == store[Name]
              t == last'.token
          IN (v.Token = 0 \/ (v.Locked # 0 /\ v.Locked < clock) \/ v.Token = t) =>
                /\ last'.ok
                /\ store'[Name].Token = t /\ store'[Name].Locked = ctx[t].locked]_vars

\* The holder called Lock again with the lock time it already has and was
\* told false.
C35_Refused ==
    \E a \in Clients :
        /\ Holds(a) /\ last.op = "Lock" /\ last.token = a /\ ~last.ok
        /\ store[Name].Token = a

\* After an Unlock, and after a timeout, the other token got the lock.
C35_Released ==
    \E a, b \in Clients :
        /\ a # b /\ Holds(b) /\ last.op = "Lock" /\ last.token = b /\ last.ok
        /\ ctx[a].held # 0 /\ ctx[a].held < clock

\* ------------------------------------------------------------ axe jobs
\* What a handler returns: nil, an *Error with Retry, an *Error without
\* Retry, another error.
Outcomes == {"nil", "retry", "final", "other"}

\* A worker between two jobs: pc is "handler" while the handler runs,
\* attempts the attempt count of the job it dequeued, until the end of the
\* timeout of its dequeue.
IdleWorker == [pc |-> "idle", attempts |-> 0, until |-> 0]

\* A dequeue that takes a job whatever its time of availability.
Dequeuable_Any(job) == job.Status \in {"enqueued", "dequeued", "failed"}

\* dequeue, the jobs it takes: enqueued, dequeued or failed ones whose time
\* of availability has come (TestQueueingDelayed, TestDequeueTimeout,
\* TestFailDelayed).
Dequeuable(job) ==
    /\ job.Status \in {"enqueued", "dequeued", "failed"}
    /\ job.Available <= clock

\* dequeue: the job is dequeued, available again after the timeout, and
\* has one attempt more.
dequeue(job, timeout) ==
    [job EXCEPT !.Status = "dequeued", !.Available = clock + timeout,
                !.Attempts = @ + 1]

\* fail: the job is failed and available again after the delay.
fail(job, delay) == [job EXCEPT !.Status = "failed", !.Available = clock + delay]

\* cancel: the job is cancelled.
cancel(job) == [job EXCEPT !.Status = "cancelled"]

\* complete: the job is completed.
complete(job) == [job EXCEPT !.Status = "completed"]

\* Task.worker and the first half of Task.execute: the worker got the job
\* from the queue and dequeues it; if the dequeue finds it, the handler is
\* started.
ExecuteDequeue(w) ==
    /\ ctx[w].pc = "idle"
    /\ IF Dequeuable(store)
       THEN /\ store' = dequeue(store, cfg.Timeout)
            /\ ctx' = [ctx EXCEPT ![w] = [pc |-> "handler",
                                          attempts |-> store.Attempts + 1,
                                          until |-> clock + cfg.Timeout]]
            /\ last' = [op |-> "dequeue", worker |-> w, ok |-> TRUE, late |-> last.late]
       ELSE /\ last' = [op |-> "dequeue", worker |-> w, ok |-> FALSE, late |-> last.late]
            /\ UNCHANGED <<store, ctx>>
    /\ UNCHANGED <<cfg, version, clock>>

\* The second half of Task.execute: the handler returns. An *Error without
\* Retry, or one at an attempt count of MaxAttempts or more, cancels the
\* job, another *Error fails it, another error leaves it as it is, no error
\* completes it. late records that a handler which returned after the
\* end of its timeout has failed the job.
ExecuteHandler(w) ==
    /\ ctx[w].pc = "handler"
    /\ \E outcome \in Outcomes :
          /\ store' = CASE outcome = "final" -> cancel(store)
                         [] outcome = "retry" ->
                               IF ctx[w].attempts >= cfg.MaxAttempts
                               THEN cancel(store) ELSE fail(store, cfg.Delay)
                         [] outcome = "other" -> store
                         [] outcome = "nil" -> complete(store)
          /\ last' = [op |-> outcome, worker |-> w, ok |-> TRUE,
                      late |-> \/ last.late
                               \/ /\ outcome = "retry"
                                  /\ ctx[w].attempts < cfg.MaxAttempts
                                  /\ clock >= ctx[w].until]
    /\ ctx' = [ctx EXCEPT ![w].pc = "idle"]
    /\ UNCHANGED <<cfg, version, clock>>

\* A job has been enqueued without delay for a task that was started.
InitJobs ==
    /\ cfg \in [MaxAttempts : {1, 2}, Delay : {1}, Timeout : {1, 2}]
    /\ store = [Status |-> "enqueued", Available |-> 0, Attempts |-> 0]
    /\ version = EmptyFn
    /\ clock = 0
    /\ ctx = [w \in Clients |-> IdleWorker]
    /\ last = [op |-> "enqueue", worker |-> 0, ok |-> TRUE, late |-> FALSE]

\* The workers of the task poll and execute while time passes.
NextJobs ==
    \/ \E w \in Clients : ExecuteDequeue(w)
    \/ \E w \in Clients : ExecuteHandler(w)
    \/ Tick

SpecJobs == InitJobs /\ [][NextJobs]_vars

\* C36 as stated: the job is handed to the handler at most MaxAttempts
\* times, whatever the handler returns and however long it takes.
C36_AtMostMaxAttempts == store.Attempts <= cfg.MaxAttempts

\* A handler returned an error that is no *Error; after the timeout the
\* job was dequeued once more than MaxAttempts.
C36_Exceeded ==
    /\ store.Attempts > cfg.MaxAttempts
    /\ store.Status = "dequeued"
    /\ \E w \in Clients : ctx[w].pc = "handler" /\ ctx[w].attempts = store.Attempts

\* The handler failed with Retry at attempt MaxAttempts and the job was
\* cancelled.
C36_Cancelled ==
    /\ cfg.MaxAttempts = 2 /\ store.Attempts = 2
    /\ store.Status = "cancelled" /\ last.op = "retry"

\* The worker runs the handler of the job and the timeout of its dequeue
\* has not ended.
Executing(w) == ctx[w].pc = "handler" /\ clock < ctx[w].until

\* The worker's dequeue is the latest successful dequeue of the job.
Latest(w) == store.Attempts > 0 /\ ctx[w].attempts = store.Attempts

\* C37 as stated: between a successful dequeue and the end of its timeout
\* no other dequeue of the job succeeds, and at most one worker executes
\* the job at a time.
C37_Original ==
    /\ [](\A a, b \in Clients : (Executing(a) /\ Executing(b)) => a = b)
    /\ [][(\E w \in Clients : ctx[w].pc = "idle" /\ ctx'[w].pc = "handler") =>
              \A w \in Clients : Latest(w) => clock >= ctx[w].until]_vars

\* C37: a job in status dequeued is held until the end of its timeout: no
\* dequeue succeeds meanwhile, every successful dequeue raises the attempt
\* count by exactly one and nothing else changes it, and at most one worker
\* executes the job within its timeout unless a handler that returned after
\* the end of its own timeout has failed the job.
C37_Exclusive ==
    /\ [](~last.late => \A a, b \in Clients : (Executing(a) /\ Executing(b)) => a = b)
    /\ [][(\E w \in Clients : ctx[w].pc = "idle" /\ ctx'[w].pc = "handler") =>
              /\ last'.op = "dequeue" /\ last'.ok
              /\ ~(store.Status = "dequeued" /\ clock < store.Available)
              /\ store'.Attempts = store.Attempts + 1
              /\ store'.Status = "dequeued"]_vars
    /\ [][store'.Attempts # store.Attempts =>
              \E w \in Clients : ctx[w].pc = "idle" /\ ctx'[w].pc = "handler"]_vars

\* The job was failed and dequeued again before the timeout of the first
\* dequeue has ended.
C37_AfterFail ==
    \E a, b \in Clients :
        /\ a # b /\ ctx[a].pc = "idle" /\ ctx[a].attempts = 1 /\ clock < ctx[a].until
        /\ Executing(b) /\ ctx[b].attempts = 2 /\ ~last.late

\* Two workers execute the job within their timeouts.
C37_Both ==
    \E a, b \in Clients : a # b /\ Executing(a) /\ Executing(b)

\* A worker dequeued the job, the other worker's dequeue within the timeout
\* failed, and after the timeout the other worker dequeued it at attempt 2.
C37_Witness ==
    \E a, b \in Clients :
        /\ a # b /\ ctx[a].pc = "handler" /\ ctx[a].attempts = 1 /\ ctx[a].until <= clock
        /\ Executing(b) /\ ctx[b].attempts = 2 /\ store.Attempts = 2

\* The other worker's dequeue failed while the job was held.
C37_Refused ==
    \E a, b \in Clients :
        /\ a # b /\ Executing(a) /\ ctx[b].pc = "idle"
        /\ last.op = "dequeue" /\ last.worker = b /\ ~last.ok

\* ------------------------------------------------------------ ash strategy
\* The authorizers of the model: one whose matcher rejects the request,
\* one that returns no enforcers, one that returns an error, and ones that
\* return enforcers.
Kinds == {"skip", "none", "error", "grant", "deny", "empty", "unsupported"}

\* The enforcers an authorizer returns: AccessGranted twice, AccessDenied
\* before AccessGranted, an empty list, an enforcer whose matcher rejects
\* the request.
Enforcers(kind) ==
    CASE kind = "grant" -> <<"granted", "granted">>
      [] kind = "deny" -> <<"denied", "granted">>
      [] kind = "unsupported" -> <<"unmatched">>
      [] OTHER -> <<>>

\* The error of an authorizer's handler.
ErrHandler == Errorf("handler failed")

\* The panic of call for an enforcer that does not match.
PanicNotSupported == [kind |-> "panic", Status |-> 0, Detail |-> "ash: not supported"]

\* The fields of a Strategy that hold a list of authorizers, and the two
\* that hold a map from action names to lists.
StrategyLists ==
    {"List", "Find", "Create", "Update", "Delete", "CollectionActions",
     "ResourceActions", "Read", "Write", "Actions", "All"}

\* The lists with the general ones first.
Lists_AllFirst(op) ==
    CASE op = "list" -> <<"All", "Read", "List">>
      [] op = "find" -> <<"All", "Read", "Find">>
      [] op = "create" -> <<"All", "Write", "Create">>
      [] op = "update" -> <<"All", "Write", "Update">>
      [] op = "delete" -> <<"All", "Write", "Delete">>
      [] op = "collection-action" ->
            <<"All", "Actions", "CollectionActions", "CollectionAction">>
      [] op = "resource-action" ->
            <<"All", "Actions", "ResourceActions", "ResourceAction">>

\* Strategy.Callback: the lists handed to call for an operation.
Lists(op) ==
    CASE op = "list" -> <<"List", "Read", "All">>
      [] op = "find" -> <<"Find", "Read", "All">>
      [] op = "create" -> <<"Create", "Write", "All">>
      [] op = "update" -> <<"Update", "Write", "All">>
      [] op = "delete" -> <<"Delete", "Write", "All">>
      [] op = "collection-action" ->
            <<"CollectionAction", "CollectionActions", "Actions", "All">>
      [] op = "resource-action" ->
            <<"ResourceAction", "ResourceActions", "Actions", "All">>

\* The list of a field of the strategy for a request; the lookup of an
\* action that has no entry in the map gives the empty list.
ListOf(s, field, action) ==
    IF field \in StrategyLists THEN s[field]
    ELSE IF action \in DOMAIN s[field] THEN s[field][action] ELSE <<>>

\* The authorizers of the lists one after the other, each with its list and
\* its place in the list.
RECURSIVE Flat(_, _, _)
Flat(s, fields, action) ==
    IF fields = <<>> THEN <<>>
    ELSE LET list == ListOf(s, Head(fields), action) IN
         [n \in 1..Len(list) |-> [list |-> Head(fields), n |-> n, kind |-> list[n]]]
            \o Flat(s, Tail(fields), action)

\* Strategy.call, the loop over the enforcers of an authorizer: an enforcer
\* that does not match panics, an error of an enforcer is returned, nil is
\* returned after the last.
RECURSIVE enforce(_, _, _, _)
enforce(a, enforcers, j, trace) ==
    IF j > Len(enforcers) THEN [result |-> Nil, trace |-> trace]
    ELSE IF enforcers[j] = "unmatched"
    THEN [result |-> PanicNotSupported, trace |-> trace]
    ELSE LET ran == Append(trace, [list |-> a.list, n |-> a.n, e |-> j]) IN
         IF enforcers[j] = "denied" THEN [result |-> ErrAccessDenied, trace |-> ran]
         ELSE enforce(a, enforcers, j + 1, ran)

\* Strategy.call, the loop over the authorizers: one that does not match is
\* passed over, an error of a handler is returned, enforcers are run, and
\* ErrAccessDenied is returned after the last authorizer. The trace holds
\* the handlers (e = 0) and enforcers (e > 0) that ran.
RECURSIVE call(_, _, _)
call(auths, i, trace) ==
    IF i > Len(auths) THEN [result |-> ErrAccessDenied, trace |-> trace]
    ELSE LET a == auths[i]
             ran == Append(trace, [list |-> a.list, n |-> a.n, e |-> 0])
         IN IF a.kind = "skip" THEN call(auths, i + 1, trace)
            ELSE IF a.kind = "error" THEN [result |-> ErrHandler, trace |-> ran]
            ELSE IF a.kind = "none" THEN call(auths, i + 1, ran)
            ELSE enforce(a, Enforcers(a.kind), 1, ran)

\* The callback of the strategy runs for the request.
Callback ==
    /\ ctx.pending
    /\ ctx' = [ctx EXCEPT !.pending = FALSE]
    /\ last' = call(Flat(cfg, Lists(ctx.op), ctx.action), 1, <<>>)
    /\ UNCHANGED <<cfg, store, version, clock>>

\* The lists of up to two authorizers, and of up to one.
Two == {<<>>} \cup {<<a>> : a \in Kinds} \cup {<<a, b>> : a, b \in Kinds}

One == {<<>>} \cup {<<a>> : a \in Kinds}

\* The list of the operation, then the lists of its groups, then All.
ClaimOrder(op) ==
    CASE op = "list" -> <<"List", "Read", "All">>
      [] op = "find" -> <<"Find", "Read", "All">>
      [] op = "create" -> <<"Create", "Write", "All">>
      [] op = "update" -> <<"Update", "Write", "All">>
      [] op = "delete" -> <<"Delete", "Write", "All">>
      [] op = "collection-action" ->
            <<"CollectionAction", "CollectionActions", "Actions", "All">>
      [] op = "resource-action" ->
            <<"ResourceAction", "ResourceActions", "Actions", "All">>

\* A strategy and a request: the list of the operation holds up to two
\* authorizers, the lists of its groups and All up to one, and every list
\* of another operation one authorizer that grants.
InitStrategy ==
    /\ \E op \in Operations :
       \E action \in (IF Action(op) THEN {"act", "other"} ELSE {""}) :
       \E first \in Two, rest \in [2..Len(ClaimOrder(op)) -> One] :
          LET own(field) == CHOOSE k \in 1..Len(ClaimOrder(op)) : ClaimOrder(op)[k] = field
              used == {ClaimOrder(op)[k] : k \in 1..Len(ClaimOrder(op))}
              list(field) == IF field \notin used THEN <<"grant">>
                             ELSE IF own(field) = 1 THEN first
                             ELSE rest[own(field)]
          IN /\ cfg = [f \in StrategyLists \cup {"CollectionAction", "ResourceAction"} |->
                          IF f \in StrategyLists THEN list(f) ELSE ("act" :> list(f))]
             /\ ctx = [op |-> op, action |-> action, pending |-> TRUE]
    /\ store = EmptyFn
    /\ version = EmptyFn
    /\ clock = 0
    /\ last = [result |-> Nil, trace |-> <<>>]

SpecStrategy == InitStrategy /\ [][Callback]_vars

\* The authorizers in the order of the claim.
Ordered == Flat(cfg, ClaimOrder(ctx.op), ctx.action)

\* The places of the authorizers whose matcher accepts the request.
Matching38 == {i \in 1..Len(Ordered) : Ordered[i].kind # "skip"}

\* The places of the matching authorizers that return enforcers, and of
\* those that return enforcers or an error.
Enforcing == {i \in Matching38 : Ordered[i].kind \notin {"none", "error"}}

Deciding == {i \in Matching38 : Ordered[i].kind # "none"}

\* The least place of a set of places.
First(S) == CHOOSE i \in S : \A j \in S : i <= j

\* The handlers and the enforcers of the trace, in the order they ran.
HandlersRun == SelectSeq(last.trace, LAMBDA t : t.e = 0)

EnforcersRun == SelectSeq(last.trace, LAMBDA t : t.e > 0)

\* The handlers of the matching authorizers up to a place, in order.
HandlersUpTo(k) ==
    LET upto == SelectSeq([i \in 1..Len(Ordered) |-> i],
                          LAMBDA i : i <= k /\ i \in Matching38)
    IN [x \in 1..Len(upto) |->
           [list |-> Ordered[upto[x]].list, n |-> Ordered[upto[x]].n, e |-> 0]]

\* All enforcers of the authorizer at a place, in order.
AllEnforcers(k) ==
    [j \in 1..Len(Enforcers(Ordered[k].kind)) |->
        [list |-> Ordered[k].list, n |-> Ordered[k].n, e |-> j]]

\* C38 as stated: the callback returns ErrAccessDenied unless a matching
\* authorizer returns enforcers, and all enforcers of the first authorizer
\* that returns enforcers are run in order.
C38_Original ==
    ~ctx.pending =>
       /\ Enforcing = {} => last.result = ErrAccessDenied
       /\ Enforcing # {} => EnforcersRun = AllEnforcers(First(Enforcing))

\* C38: the strategy denies by default: the callback returns nil only if a
\* matching authorizer returned enforcers; the authorizers are consulted in
\* the order list of the operation, lists of its groups, All; the first
\* matching one that returns enforcers or an error decides alone and no
\* later one is consulted; its enforcers run in order up to the first that
\* fails; without such an authorizer the result is ErrAccessDenied, an
\* error of a handler or an enforcer is returned as it is.
C38_DenyByDefault ==
    ~ctx.pending =>
       /\ last.result = Nil => Enforcing # {}
       /\ Deciding = {} =>
             /\ last.result = ErrAccessDenied
             /\ last.trace = HandlersUpTo(Len(Ordered))
       /\ Deciding # {} =>
             LET k == First(Deciding)
                 kind == Ordered[k].kind
             IN /\ HandlersRun = HandlersUpTo(k)
                /\ last.trace = HandlersRun \o EnforcersRun
                /\ kind = "error" => (last.result = ErrHandler /\ EnforcersRun = <<>>)
                /\ kind \in {"grant", "empty"} =>
                      (last.result = Nil /\ EnforcersRun = AllEnforcers(k))
                /\ kind = "deny" =>
                      /\ last.result = ErrAccessDenied
                      /\ EnforcersRun = SubSeq(AllEnforcers(k), 1, 1)
                /\ kind = "unsupported" =>
                      (last.result = PanicNotSupported /\ EnforcersRun = <<>>)

\* An authorizer of the list of the operation returned nothing, the one of
\* the group list granted: both its enforcers ran, All was not consulted.
C38_Witness ==
    /\ ~ctx.pending /\ ctx.op = "update" /\ last.result = Nil
    /\ cfg.Update = <<"skip", "none">> /\ cfg.Write = <<"grant">> /\ cfg.All = <<"deny">>
    /\ last.trace = <<[list |-> "Update", n |-> 2, e |-> 0], [list |-> "Write", n |-> 1, e |-> 0],
                      [list |-> "Write", n |-> 1, e |-> 1], [list |-> "Write", n |-> 1, e |-> 2]>>

\* No authorizer returned enforcers and access was denied.
C38_Denied ==
    /\ ~ctx.pending /\ ctx.op = "resource-action" /\ ctx.action = "other"
    /\ Deciding = {} /\ Len(HandlersRun) = 3 /\ last.result = ErrAccessDenied

\* A handler failed: its error was returned, not ErrAccessDenied.
C38_HandlerError ==
    /\ ~ctx.pending /\ Enforcing = {} /\ last.result = ErrHandler

\* The first enforcer denied and the second did not run.
C38_Stopped ==
    /\ ~ctx.pending /\ Enforcing # {} /\ Ordered[First(Enforcing)].kind = "deny"
    /\ Len(EnforcersRun) = 1 /\ last.result = ErrAccessDenied

\* ------------------------------------------------------------ refresh token grant
\* A grant handler between two requests.
IdleGrant == [pc |-> "idle", scope |-> "", result |-> "none"]

\* oauth2.Scope.Includes for the scopes of the model: the empty scope is
\* included in every scope.
Includes(granted, scope) == scope = "" \/ scope = granted

\* handleRefreshTokenGrant up to the validation of the scope: the request
\* presents refresh token 1; it is rejected if the token is not stored, has
\* expired, belongs to another client or does not include the scope.
GrantFind(r) ==
    /\ ctx[r].pc = "idle"
    /\ version < MaxWrites
    /\ \E client \in Clients, scope \in {"", "a", "b"} :
          LET reject(error) ==
                  /\ ctx' = [ctx EXCEPT ![r].result = error]
                  /\ last' = [last EXCEPT !.rejected = TRUE]
          IN IF 1 \notin DOMAIN store THEN reject("invalid_grant: unknown")
             ELSE IF store[1].ExpiresAt < clock THEN reject("invalid_grant: expired")
             ELSE IF store[1].ClientID # client THEN reject("invalid_grant: ownership")
             ELSE IF ~Includes(store[1].Scope, scope) THEN reject("invalid_scope")
             ELSE /\ ctx' = [ctx EXCEPT ![r] = [pc |-> "found",
                                                 scope |-> IF scope = "" THEN store[1].Scope
                                                           ELSE scope,
                                                 result |-> "none"]]
                  /\ last' = last
    /\ UNCHANGED <<cfg, store, version, clock>>

\* issueTokens: a new access token and a new refresh token are saved.
GrantIssue(r) ==
    /\ ctx[r].pc = "found"
    /\ version' = version + 1
    /\ store' = store @@ ((version + 2) :>
                    [ClientID |-> 1, Scope |-> ctx[r].scope,
                     ExpiresAt |-> clock + cfg.RefreshTokenLifespan])
    /\ ctx' = [ctx EXCEPT ![r].pc = "issued"]
    /\ UNCHANGED <<cfg, clock, last>>

\* deleteRefreshToken and the response: the presented token is removed (a
\* token that is gone is no error) and the new tokens are sent.
GrantDelete(r) ==
    /\ ctx[r].pc = "issued"
    /\ store' = [id \in DOMAIN store \ {1} |-> store[id]]
    /\ ctx' = [ctx EXCEPT ![r].pc = "idle", ![r].result = "granted"]
    /\ last' = [last EXCEPT !.granted = @ + 1]
    /\ UNCHANGED <<cfg, version, clock>>

\* Refresh token 1 of client 1 with scope a is stored; no grant was made.
InitGrant ==
    /\ cfg = [RefreshTokenLifespan |-> 2]
    /\ store = (1 :> [ClientID |-> 1, Scope |-> "a", ExpiresAt |-> 2])
    /\ version = 0
    /\ clock = 0
    /\ ctx = [r \in Clients |-> IdleGrant]
    /\ last = [granted |-> 0, rejected |-> FALSE]

\* Two connections handle grant requests that present the token.
NextGrant ==
    \/ \E r \in Clients : GrantFind(r)
    \/ \E r \in Clients : GrantIssue(r)
    \/ \E r \in Clients : GrantDelete(r)
    \/ Tick

SpecGrant == InitGrant /\ [][NextGrant]_vars

\* C39 as stated: a refresh token is redeemed at most once, also by
\* concurrent grant requests: at most one request presenting it is granted.
C39_AtMostOnce == last.granted <= 1

\* Two concurrent requests found the token before either deleted it, and
\* both were granted new tokens.
C39_Twice ==
    /\ last.granted = 2 /\ ~last.rejected
    /\ \A r \in Clients : ctx[r].result = "granted"
    /\ DOMAIN store = {2, 3}

\* A request that came after a grant was rejected.
C39_Rejected ==
    \E a, b \in Clients :
        /\ a # b /\ last.granted = 1 /\ ctx[a].result = "granted"
        /\ ctx[b].result = "invalid_grant: unknown" /\ 1 \notin DOMAIN store

====
